---- MODULE Spec2Model ----
(***************************************************************************)
(* A model of the AVM2 interpreter of python-avm2: the byte reader that    *)
(* decodes instructions (avm2/io), the instruction handlers                *)
(* (avm2/abc/instructions.py), the runtime objects (avm2/runtime.py) and   *)
(* the executor (avm2/vm.py).                                              *)
(*                                                                         *)
(* Host-language (Python) exceptions are part of the behaviour: a handler  *)
(* that raises leaves execute_code, and every enclosing execute_code, since *)
(* execute_code holds no try statement.  `outcome` records what the host   *)
(* caller of execute_method / execute_entry_point observes.                *)
(***************************************************************************)
EXTENDS Integers, Sequences, FiniteSets, TLC

VARIABLES
    abc,            \* the decoded ABCFile held by the VirtualMachine (read-only)
    frames,         \* host call stack of execute_code activations; the last is running
    heap,           \* the runtime objects, by identity
    class_objects,  \* machine.class_objects: class index -> object identity
    outcome,        \* what the host caller has observed so far
    last            \* the instruction dispatched last, and how it went

vars == <<abc, frames, heap, class_objects, outcome, last>>

\* Longest set-up prefix of the generated method bodies.
MaxSetup == 2
\* the depth of nested invocations at which the host stack is exhausted
MaxDepth == 3

-----------------------------------------------------------------------------
(* Runtime values.  Every value is [t, v]; objects are held by identity.   *)

IntV(n) == [t |-> "int", v |-> n]
BoolV(b) == [t |-> "bool", v |-> IF b THEN 1 ELSE 0]
\* a Python float, kept exact as a reduced fraction <<num, den>>, den > 0
DoubleV(n, d) == [t |-> "double", v |-> <<n, d>>]
\* Python None, the null constant
Null == [t |-> "null", v |-> 0]
\* Python Ellipsis, the literal `...`
Ellipsis == [t |-> "ellipsis", v |-> 0]
Ref(i) == [t |-> "ref", v |-> i]

\* identities of the objects that exist once the machine is constructed
UndefinedId == 1
GlobalId == 2
ThisId == 3
FunctionId == 4
ClassId == 5

\* runtime.undefined, the ASUndefined singleton
undefined == Ref(UndefinedId)

IsRef(x) == x.t = "ref"
IsNumber(x) == x.t \in {"int", "bool", "double"}

EmptyProperties == [k \in {} |-> Null]

\* ASObject(): class_index None, properties a fresh dict
ASObject == [cls |-> "ASObject", properties |-> EmptyProperties, value |-> "", base_type |-> Null]
ASUndefined == [cls |-> "ASUndefined", properties |-> EmptyProperties, value |-> "", base_type |-> Null]
\* ASString(value): ASObject.__init__ gives the instance its own properties
ASString(s) == [cls |-> "ASString", properties |-> EmptyProperties, value |-> s, base_type |-> Null]
\* ASString.properties, the class-level dict: nothing ever writes it
ASString_properties == EmptyProperties
\* host-supplied callable and class-object (the host registry of the spec)
HostFunction == [cls |-> "HostFunction", properties |-> EmptyProperties, value |-> "", base_type |-> Null]
HostClass == [cls |-> "HostClass", properties |-> EmptyProperties, value |-> "", base_type |-> Null]

-----------------------------------------------------------------------------
(* MemoryViewReader: a buffer is a sequence of bytes, position is 0-based. *)

Pow2(n) == 2 ^ n

\* the primitives return [ok, v, pos] or [ok |-> FALSE, exc]; pos is the
\* position the reader is left at, also when the call raises
Ok(v, pos) == [ok |-> TRUE, v |-> v, pos |-> pos, exc |-> ""]
Fail(exc) == [ok |-> FALSE, v |-> 0, pos |-> 0, exc |-> exc]
FailAt(exc, pos) == [ok |-> FALSE, v |-> 0, pos |-> pos, exc |-> exc]

read_u8(buffer, position) ==
    IF position < Len(buffer)
    THEN Ok(buffer[position + 1], position + 1)
    ELSE FailAt("IndexError", position)

\* the groups above bit 27 are kept apart from the 28 bits below them
GroupBase == 268435456

\* the loop of read_int, `for i in range(0, 35, 7)`: the value is
\* hi * GroupBase + lo, hi the seven bits of a fifth byte
RECURSIVE read_int_from(_, _, _, _)
read_int_from(buffer, position, i, value) ==
    LET b == read_u8(buffer, position) IN
    IF ~b.ok THEN b
    ELSE IF i = 28 THEN Ok([hi |-> b.v % 128, lo |-> value, i |-> i], b.pos)
    ELSE IF b.v < 128 THEN Ok([hi |-> 0, lo |-> value + (b.v % 128) * Pow2(i), i |-> i], b.pos)
    ELSE read_int_from(buffer, b.pos, i + 7, value + (b.v % 128) * Pow2(i))

\* (value & (mask - 1)) - (value & mask), mask a power of two
extend_sign(value, mask) ==
    (value % mask) - (IF (value \div mask) % 2 = 1 THEN mask ELSE 0)

\* the sign taken from bit 6 of the value, whatever the number of groups
low_sign(r) ==
    IF ~r.ok THEN r ELSE Ok([r.v EXCEPT !.lo = extend_sign(r.v.lo, 64)], r.pos)

read_int_parts_low_sign(buffer, position, unsigned) ==
    IF unsigned THEN read_int_from(buffer, position, 0, 0)
    ELSE low_sign(read_int_from(buffer, position, 0, 0))

\* self.extend_sign(value, 0x00000040 << i): the mask is bit 6 of the last
\* group the loop took
signed(r) ==
    IF ~r.ok THEN r
    ELSE IF r.v.i = 28
    THEN Ok([r.v EXCEPT !.hi = extend_sign(r.v.hi, 64)], r.pos)
    ELSE Ok([r.v EXCEPT !.lo = extend_sign(r.v.lo, 64 * Pow2(r.v.i))], r.pos)

\* read_int(unsigned): the value in the parts hi and lo
read_int_parts(buffer, position, unsigned) ==
    IF unsigned THEN read_int_from(buffer, position, 0, 0)
    ELSE signed(read_int_from(buffer, position, 0, 0))

\* the integer of the parts, for values the 32-bit integers hold
whole(r) == IF ~r.ok THEN r ELSE Ok(r.v.hi * GroupBase + r.v.lo, r.pos)

\* read_int(unsigned=True)
read_int(buffer, position) == whole(read_int_from(buffer, position, 0, 0))

\* buffer[position:position + size]: what is there, shorter at the end
read(buffer, position, size) ==
    LET to == IF position + size <= Len(buffer) THEN position + size ELSE Len(buffer)
        value == IF position >= to THEN <<>> ELSE SubSeq(buffer, position + 1, to)
    IN Ok(value, position + Len(value))

\* read_s24 without the sign extension
read_s24_unsigned(buffer, position) ==
    LET r == read(buffer, position, 3) IN
    IF Len(r.v) = 3
    THEN Ok(r.v[1] + 256 * r.v[2] + 65536 * r.v[3], r.pos)
    ELSE FailAt("struct.error", r.pos)

\* U32.unpack(self.read(3).tobytes() + b'\x00'), then the sign of bit 23
read_s24(buffer, position) ==
    LET r == read(buffer, position, 3) IN
    IF Len(r.v) = 3
    THEN Ok(extend_sign(r.v[1] + 256 * r.v[2] + 65536 * r.v[3], 8388608), r.pos)
    ELSE FailAt("struct.error", r.pos)

\* four-byte little-endian unsigned
read_u32(buffer, position) ==
    IF position + 4 <= Len(buffer)
    THEN Ok(buffer[position + 1] + 256 * buffer[position + 2]
             + 65536 * buffer[position + 3] + 16777216 * buffer[position + 4],
            position + 4)
    ELSE FailAt("struct.error", position)

\* two-byte little-endian unsigned
read_u16(buffer, position) ==
    IF position + 2 <= Len(buffer)
    THEN Ok(buffer[position + 1] + 256 * buffer[position + 2], position + 2)
    ELSE FailAt("struct.error", position)

\* D64.unpack(self.read(8)): the eight bytes name the float
read_d64(buffer, position) ==
    LET r == read(buffer, position, 8) IN
    IF Len(r.v) = 8 THEN r ELSE FailAt("struct.error", r.pos)

\* buffer[self.position:]
read_all(buffer, position) ==
    LET value == IF position >= Len(buffer) THEN <<>>
                 ELSE SubSeq(buffer, position + 1, Len(buffer))
    IN Ok(value, position + Len(value))

\* skip(size) returns the new position
skip(buffer, position, size) == Ok(position + size, position + size)

\* the bytes after the first without the `+ 8`
rect_bytes_floor(n_bits) == ((n_bits \div 8) * 4 - 3) \div 8

\* the bytes skip_rect skips after the first: ((n_bits >> 3) * 4 - 3 + 8) // 8
rect_bytes(n_bits) == (((n_bits \div 8) * 4 - 3) + 8) \div 8

\* swf.parser.skip_rect(io) over a BinaryIO at the position: io.read(1)
\* is empty at the end of the stream, and the unpacking fails
parser_skip_rect(buffer, position) ==
    LET n_bits == read(buffer, position, 1) IN
    IF Len(n_bits.v) # 1 THEN FailAt("ValueError", n_bits.pos)
    ELSE Ok(0, n_bits.pos + ((((n_bits.v[1] \div 8) * 4 - 3) + 8) \div 8))

\* skip_rect returns None
skip_rect(buffer, position) ==
    LET n_bits == read_u8(buffer, position) IN
    IF ~n_bits.ok THEN n_bits
    ELSE Ok(0, skip(buffer, n_bits.pos, rect_bytes(n_bits.v)).pos)

\* read_until: length counts up from 0 until buffer[position + length] is
\* the sentinel
RECURSIVE read_until_from(_, _, _, _)
read_until_from(buffer, position, length, sentinel) ==
    IF position + length >= Len(buffer) THEN FailAt("IndexError", position)
    ELSE IF buffer[position + length + 1] = sentinel
    THEN Ok(IF length = 0 THEN <<>> ELSE SubSeq(buffer, position + 1, position + length),
            position + length + 1)
    ELSE read_until_from(buffer, position, length + 1, sentinel)

\* read_until that leaves the reader at the sentinel
read_until_at_sentinel(buffer, position, sentinel) ==
    LET r == read_until_from(buffer, position, 0, sentinel) IN
    IF r.ok THEN Ok(r.v, r.pos - 1) ELSE r

read_until(buffer, position, sentinel) == read_until_from(buffer, position, 0, sentinel)

\* bytes(...).decode('utf-8') over buffers that hold ASCII bytes and bytes
\* of 128..191, which start no character
decode_utf8(r) ==
    IF ~r.ok THEN r
    ELSE IF \E i \in DOMAIN r.v : r.v[i] >= 128 THEN FailAt("UnicodeDecodeError", r.pos)
    ELSE r

read_string(buffer, position) == decode_utf8(read_until(buffer, position, 0))

-----------------------------------------------------------------------------
(* The instruction classes: @instruction(opcode), class name, the typed    *)
(* fields the base constructor reads in order.                             *)

opcode_to_instruction == {
    [opcode |-> 160, name |-> "Add", fields |-> <<>>],
    [opcode |-> 197, name |-> "AddInteger", fields |-> <<>>],
    [opcode |-> 134, name |-> "AsType", fields |-> <<"u30">>],
    [opcode |-> 135, name |-> "AsTypeLate", fields |-> <<>>],
    [opcode |-> 168, name |-> "BitAnd", fields |-> <<>>],
    [opcode |-> 151, name |-> "BitNot", fields |-> <<>>],
    [opcode |-> 169, name |-> "BitOr", fields |-> <<>>],
    [opcode |-> 170, name |-> "BitXor", fields |-> <<>>],
    [opcode |-> 65, name |-> "Call", fields |-> <<"u30">>],
    [opcode |-> 67, name |-> "CallMethod", fields |-> <<"u30", "u30">>],
    [opcode |-> 70, name |-> "CallProperty", fields |-> <<"u30", "u30">>],
    [opcode |-> 76, name |-> "CallPropLex", fields |-> <<"u30", "u30">>],
    [opcode |-> 79, name |-> "CallPropVoid", fields |-> <<"u30", "u30">>],
    [opcode |-> 68, name |-> "CallStatic", fields |-> <<"u30", "u30">>],
    [opcode |-> 69, name |-> "CallSuper", fields |-> <<"u30", "u30">>],
    [opcode |-> 78, name |-> "CallSuperVoid", fields |-> <<"u30", "u30">>],
    [opcode |-> 120, name |-> "CheckFilter", fields |-> <<>>],
    [opcode |-> 128, name |-> "Coerce", fields |-> <<"u30">>],
    [opcode |-> 130, name |-> "CoerceAny", fields |-> <<>>],
    [opcode |-> 133, name |-> "CoerceString", fields |-> <<>>],
    [opcode |-> 66, name |-> "Construct", fields |-> <<"u30">>],
    [opcode |-> 74, name |-> "ConstructProp", fields |-> <<"u30", "u30">>],
    [opcode |-> 73, name |-> "ConstructSuper", fields |-> <<"u30">>],
    [opcode |-> 118, name |-> "ConvertToBoolean", fields |-> <<>>],
    [opcode |-> 115, name |-> "ConvertToInteger", fields |-> <<>>],
    [opcode |-> 117, name |-> "ConvertToDouble", fields |-> <<>>],
    [opcode |-> 119, name |-> "ConvertToObject", fields |-> <<>>],
    [opcode |-> 116, name |-> "ConvertToUnsignedInteger", fields |-> <<>>],
    [opcode |-> 112, name |-> "ConvertToString", fields |-> <<>>],
    [opcode |-> 239, name |-> "Debug", fields |-> <<"u8", "u30", "u8", "u30">>],
    [opcode |-> 241, name |-> "DebugFile", fields |-> <<"u30">>],
    [opcode |-> 240, name |-> "DebugLine", fields |-> <<"u30">>],
    [opcode |-> 148, name |-> "DecLocal", fields |-> <<"u30">>],
    [opcode |-> 195, name |-> "DecLocalInteger", fields |-> <<"u30">>],
    [opcode |-> 147, name |-> "Decrement", fields |-> <<>>],
    [opcode |-> 193, name |-> "DecrementInteger", fields |-> <<>>],
    [opcode |-> 106, name |-> "DeleteProperty", fields |-> <<"u30">>],
    [opcode |-> 163, name |-> "Divide", fields |-> <<>>],
    [opcode |-> 42, name |-> "Dup", fields |-> <<>>],
    [opcode |-> 6, name |-> "DXNS", fields |-> <<"u30">>],
    [opcode |-> 7, name |-> "DXNSLate", fields |-> <<>>],
    [opcode |-> 171, name |-> "EqualsOperation", fields |-> <<>>],
    [opcode |-> 114, name |-> "EscXAttr", fields |-> <<>>],
    [opcode |-> 113, name |-> "EscXElem", fields |-> <<>>],
    [opcode |-> 94, name |-> "FindProperty", fields |-> <<"u30">>],
    [opcode |-> 93, name |-> "FindPropStrict", fields |-> <<"u30">>],
    [opcode |-> 89, name |-> "GetDescendants", fields |-> <<"u30">>],
    [opcode |-> 100, name |-> "GetGlobalScope", fields |-> <<>>],
    [opcode |-> 110, name |-> "GetGlobalSlot", fields |-> <<"u30">>],
    [opcode |-> 96, name |-> "GetLex", fields |-> <<"u30">>],
    [opcode |-> 98, name |-> "GetLocal", fields |-> <<"u30">>],
    [opcode |-> 208, name |-> "GetLocal0", fields |-> <<>>],
    [opcode |-> 209, name |-> "GetLocal1", fields |-> <<>>],
    [opcode |-> 210, name |-> "GetLocal2", fields |-> <<>>],
    [opcode |-> 211, name |-> "GetLocal3", fields |-> <<>>],
    [opcode |-> 102, name |-> "GetProperty", fields |-> <<"u30">>],
    [opcode |-> 101, name |-> "GetScopeObject", fields |-> <<"u8">>],
    [opcode |-> 108, name |-> "GetSlot", fields |-> <<"u30">>],
    [opcode |-> 4, name |-> "GetSuper", fields |-> <<"u30">>],
    [opcode |-> 176, name |-> "GreaterEquals", fields |-> <<>>],
    [opcode |-> 175, name |-> "GreaterThan", fields |-> <<>>],
    [opcode |-> 31, name |-> "HasNext", fields |-> <<>>],
    [opcode |-> 50, name |-> "HasNext2", fields |-> <<"uint", "uint">>],
    [opcode |-> 19, name |-> "IfEq", fields |-> <<"s24">>],
    [opcode |-> 18, name |-> "IfFalse", fields |-> <<"s24">>],
    [opcode |-> 24, name |-> "IfGE", fields |-> <<"s24">>],
    [opcode |-> 23, name |-> "IfGT", fields |-> <<"s24">>],
    [opcode |-> 22, name |-> "IfLE", fields |-> <<"s24">>],
    [opcode |-> 21, name |-> "IfLT", fields |-> <<"s24">>],
    [opcode |-> 15, name |-> "IfNGE", fields |-> <<"s24">>],
    [opcode |-> 14, name |-> "IfNGT", fields |-> <<"s24">>],
    [opcode |-> 13, name |-> "IfNLE", fields |-> <<"s24">>],
    [opcode |-> 12, name |-> "IfNLT", fields |-> <<"s24">>],
    [opcode |-> 20, name |-> "IfNE", fields |-> <<"s24">>],
    [opcode |-> 25, name |-> "IfStrictEq", fields |-> <<"s24">>],
    [opcode |-> 26, name |-> "IfStrictNE", fields |-> <<"s24">>],
    [opcode |-> 17, name |-> "IfTrue", fields |-> <<"s24">>],
    [opcode |-> 180, name |-> "In", fields |-> <<>>],
    [opcode |-> 146, name |-> "IncLocal", fields |-> <<"u30">>],
    [opcode |-> 194, name |-> "IncLocalInteger", fields |-> <<"u30">>],
    [opcode |-> 145, name |-> "Increment", fields |-> <<>>],
    [opcode |-> 192, name |-> "IncrementInteger", fields |-> <<>>],
    [opcode |-> 104, name |-> "InitProperty", fields |-> <<"u30">>],
    [opcode |-> 177, name |-> "InstanceOf", fields |-> <<>>],
    [opcode |-> 178, name |-> "IsType", fields |-> <<"u30">>],
    [opcode |-> 179, name |-> "IsTypeLate", fields |-> <<>>],
    [opcode |-> 16, name |-> "Jump", fields |-> <<"s24">>],
    [opcode |-> 8, name |-> "Kill", fields |-> <<"u30">>],
    [opcode |-> 9, name |-> "Label", fields |-> <<>>],
    [opcode |-> 174, name |-> "LessEquals", fields |-> <<>>],
    [opcode |-> 173, name |-> "LessThan", fields |-> <<>>],
    [opcode |-> 27, name |-> "LookupSwitch", fields |-> <<"switch">>],
    [opcode |-> 165, name |-> "LeftShift", fields |-> <<>>],
    [opcode |-> 164, name |-> "Modulo", fields |-> <<>>],
    [opcode |-> 162, name |-> "Multiply", fields |-> <<>>],
    [opcode |-> 199, name |-> "MultiplyInteger", fields |-> <<>>],
    [opcode |-> 144, name |-> "Negate", fields |-> <<>>],
    [opcode |-> 196, name |-> "NegateInteger", fields |-> <<>>],
    [opcode |-> 87, name |-> "NewActivation", fields |-> <<>>],
    [opcode |-> 86, name |-> "NewArray", fields |-> <<"u30">>],
    [opcode |-> 90, name |-> "NewCatch", fields |-> <<"u30">>],
    [opcode |-> 88, name |-> "NewClass", fields |-> <<"u30">>],
    [opcode |-> 64, name |-> "NewFunction", fields |-> <<"u30">>],
    [opcode |-> 85, name |-> "NewObject", fields |-> <<"u30">>],
    [opcode |-> 30, name |-> "NextName", fields |-> <<>>],
    [opcode |-> 35, name |-> "NextValue", fields |-> <<>>],
    [opcode |-> 2, name |-> "Nop", fields |-> <<>>],
    [opcode |-> 150, name |-> "Not", fields |-> <<>>],
    [opcode |-> 41, name |-> "Pop", fields |-> <<>>],
    [opcode |-> 29, name |-> "PopScope", fields |-> <<>>],
    [opcode |-> 36, name |-> "PushByte", fields |-> <<"u8">>],
    [opcode |-> 47, name |-> "PushDouble", fields |-> <<"u30">>],
    [opcode |-> 39, name |-> "PushFalse", fields |-> <<>>],
    [opcode |-> 45, name |-> "PushInteger", fields |-> <<"u30">>],
    [opcode |-> 49, name |-> "PushNamespace", fields |-> <<"u30">>],
    [opcode |-> 40, name |-> "PushNaN", fields |-> <<>>],
    [opcode |-> 32, name |-> "PushNull", fields |-> <<>>],
    [opcode |-> 48, name |-> "PushScope", fields |-> <<>>],
    [opcode |-> 37, name |-> "PushShort", fields |-> <<"u30">>],
    [opcode |-> 44, name |-> "PushString", fields |-> <<"u30">>],
    [opcode |-> 38, name |-> "PushTrue", fields |-> <<>>],
    [opcode |-> 46, name |-> "PushUnsignedInteger", fields |-> <<"u30">>],
    [opcode |-> 33, name |-> "PushUndefined", fields |-> <<>>],
    [opcode |-> 28, name |-> "PushWith", fields |-> <<>>],
    [opcode |-> 72, name |-> "ReturnValue", fields |-> <<>>],
    [opcode |-> 71, name |-> "ReturnVoid", fields |-> <<>>],
    [opcode |-> 166, name |-> "RightShift", fields |-> <<>>],
    [opcode |-> 99, name |-> "SetLocal", fields |-> <<"u30">>],
    [opcode |-> 212, name |-> "SetLocal0", fields |-> <<>>],
    [opcode |-> 213, name |-> "SetLocal1", fields |-> <<>>],
    [opcode |-> 214, name |-> "SetLocal2", fields |-> <<>>],
    [opcode |-> 215, name |-> "SetLocal3", fields |-> <<>>],
    [opcode |-> 111, name |-> "SetGlobalSlot", fields |-> <<"u30">>],
    [opcode |-> 97, name |-> "SetProperty", fields |-> <<"u30">>],
    [opcode |-> 109, name |-> "SetSlot", fields |-> <<"u30">>],
    [opcode |-> 5, name |-> "SetSuper", fields |-> <<"u30">>],
    [opcode |-> 172, name |-> "StrictEquals", fields |-> <<>>],
    [opcode |-> 161, name |-> "Subtract", fields |-> <<>>],
    [opcode |-> 198, name |-> "SubtractInteger", fields |-> <<>>],
    [opcode |-> 43, name |-> "Swap", fields |-> <<>>],
    [opcode |-> 3, name |-> "Throw", fields |-> <<>>],
    [opcode |-> 149, name |-> "TypeOf", fields |-> <<>>],
    [opcode |-> 167, name |-> "UnsignedRightShift", fields |-> <<>>]
}

OpNamed(name) == CHOOSE c \in opcode_to_instruction : c.name = name

\* the classes that define execute; the others inherit Instruction.execute
Implemented == {
    "Add", "AddInteger", "Call", "CallProperty", "Construct", "ConstructSuper",
    "ConvertToInteger", "ConvertToDouble", "Divide", "Dup", "FindProperty",
    "FindPropStrict", "GetLex", "GetLocal0", "GetLocal1", "GetLocal2", "GetLocal3",
    "GetProperty", "GetScopeObject", "GreaterEquals", "IfFalse", "IfLT", "IfNGT",
    "IfNLT", "InitProperty", "Kill", "NewClass", "Pop", "PopScope", "PushByte",
    "PushDouble", "PushFalse", "PushInteger", "PushNull", "PushScope", "PushString",
    "PushTrue", "ReturnValue", "ReturnVoid", "SetLocal0", "SetLocal1", "SetLocal2",
    "SetLocal3", "SubtractInteger"}

read_field(type, buffer, position) ==
    CASE type = "u8" -> read_u8(buffer, position)
      [] type = "u30" -> read_int(buffer, position)
      [] type = "uint" -> read_u32(buffer, position)
      [] type = "s24" -> read_s24(buffer, position)

\* Instruction.__init__: one reader call per field, in declaration order
RECURSIVE read_fields(_, _, _, _)
read_fields(fields, buffer, position, got) ==
    IF fields = <<>> THEN Ok(got, position)
    ELSE LET f == read_field(Head(fields), buffer, position) IN
         IF ~f.ok THEN f
         ELSE read_fields(Tail(fields), buffer, f.pos, Append(got, f.v))

\* LookupSwitch.__init__: default offset, case count, case_count + 1 offsets
RECURSIVE read_array_s24(_, _, _, _)
read_array_s24(buffer, position, n, got) ==
    IF n = 0 THEN Ok(got, position)
    ELSE LET f == read_s24(buffer, position) IN
         IF ~f.ok THEN f
         ELSE read_array_s24(buffer, f.pos, n - 1, Append(got, f.v))

read_lookupswitch(buffer, position) ==
    LET d == read_s24(buffer, position) IN
    IF ~d.ok THEN d
    ELSE LET n == read_int(buffer, d.pos) IN
         IF ~n.ok THEN n
         ELSE read_array_s24(buffer, n.pos, n.v + 1, <<d.v>>)

\* Instruction.__init__ of the class found, or the decoder's exception
read_instance(c, f, position) ==
    IF ~f.ok
    THEN [ok |-> FALSE, name |-> c.name, args |-> <<>>, pos |-> position, exc |-> f.exc]
    ELSE [ok |-> TRUE, name |-> c.name, args |-> f.v, pos |-> f.pos, exc |-> ""]

\* opcode_to_instruction[opcode](reader); found holds the class of that key
read_class(found, buffer, position, after) ==
    IF found = {}
    THEN [ok |-> FALSE, name |-> "", args |-> <<>>, pos |-> position, exc |-> "KeyError"]
    ELSE read_instance(CHOOSE c \in found : TRUE,
                       IF (CHOOSE c \in found : TRUE).fields = <<"switch">>
                       THEN read_lookupswitch(buffer, after)
                       ELSE read_fields((CHOOSE c \in found : TRUE).fields, buffer, after, <<>>),
                       position)

read_opcode(op, buffer, position) ==
    IF ~op.ok THEN [ok |-> FALSE, name |-> "", args |-> <<>>, pos |-> position, exc |-> op.exc]
    ELSE read_class({c \in opcode_to_instruction : c.opcode = op.v}, buffer, position, op.pos)

\* read_instruction: [ok, name, args, pos], or the exception of the decoder
read_instruction(buffer, position) == read_opcode(read_u8(buffer, position), buffer, position)
-----------------------------------------------------------------------------
(* The decoded program.  Python sequences are 0-based: At(s, i) is s[i].   *)

At(s, i) == s[i + 1]
InRange(s, i) == 0 <= i /\ i < Len(s)

\* Python None where a string is expected (the constant pools' index 0)
None == "None"

\* ASConstantPool: every pool starts with its sentinel
constant_pool == [
    integers |-> <<0, 7, 2147483647, -2147483647>>,
    doubles |-> <<DoubleV(0, 0), DoubleV(5, 2), DoubleV(37, 10), DoubleV(10, 1), DoubleV(4, 1)>>,
    strings |-> <<None, "", "x", "y">>,
    namespaces |-> <<[kind |-> None, name_index |-> 0], [kind |-> "PACKAGE_NAMESPACE", name_index |-> 1]>>,
    multinames |-> <<[kind |-> None, namespace_index |-> 0, name_index |-> 0],
                     [kind |-> "Q_NAME", namespace_index |-> 1, name_index |-> 2],
                     [kind |-> "Q_NAME", namespace_index |-> 1, name_index |-> 3]>>]

\* an instruction of a method body, before it is encoded
Ins(name, args) == [name |-> name, args |-> args]

\* the bytes read_int decodes to v
RECURSIVE encode_u30(_)
encode_u30(v) == IF v < 128 THEN <<v>> ELSE <<128 + (v % 128)>> \o encode_u30(v \div 128)

\* the three little-endian bytes read_s24 decodes to v
encode_s24(v) ==
    LET u == v % 16777216 IN <<u % 256, (u \div 256) % 256, u \div 65536>>

encode_field(type, v) ==
    CASE type = "u8" -> <<v>>
      [] type = "u30" -> encode_u30(v)
      [] type = "s24" -> encode_s24(v)

RECURSIVE encode_fields(_, _)
encode_fields(fields, args) ==
    IF fields = <<>> THEN <<>>
    ELSE encode_field(Head(fields), Head(args)) \o encode_fields(Tail(fields), Tail(args))

encode(ins) ==
    LET c == OpNamed(ins.name) IN <<c.opcode>> \o encode_fields(c.fields, ins.args)

\* the code of a method body: the encodings, concatenated
RECURSIVE Asm(_)
Asm(instructions) ==
    IF instructions = <<>> THEN <<>>
    ELSE encode(Head(instructions)) \o Asm(Tail(instructions))

\* ASMethod.options: None unless HAS_OPTIONAL is set, else the list read
NoOptions == [none |-> TRUE, items |-> <<>>]
Options(items) == [none |-> FALSE, items |-> items]

\* ASMethod
Method(param_count) == [param_count |-> param_count, flags |-> {}, options |-> NoOptions]

\* ASMethodBody
MethodBody(method, local_count, code, exceptions) ==
    [method |-> method, max_stack |-> 2, local_count |-> local_count, init_scope_depth |-> 0,
     max_scope_depth |-> 1, code |-> code, exceptions |-> exceptions]

\* the initializer of the last script
ScriptInitializer == <<Ins("GetLocal0", <<>>), Ins("PushScope", <<>>), Ins("ReturnVoid", <<>>)>>

\* ABCFile: method 0 is the one the host calls (three parameters, four
\* registers), method 1 the initializer of the one class, whose static
\* traits hold one CONST named by multiname 2, and of the first script,
\* method 2 the initializer of the last script
ABCFile(main, exceptions, cinit) == [
    constant_pool |-> constant_pool,
    methods |-> <<Method(3), Method(0), Method(0)>>,
    classes |-> <<[init_index |-> 1, traits |-> <<[name_index |-> 2, kind |-> "CONST"]>>]>>,
    scripts |-> <<[init |-> 1], [init |-> 2]>>,
    method_bodies |-> <<MethodBody(0, 4, Asm(main), exceptions),
                        MethodBody(1, 1, Asm(cinit), <<>>),
                        MethodBody(2, 1, Asm(ScriptInitializer), <<>>)>>]

-----------------------------------------------------------------------------
(* The method bodies that are run.                                         *)

Bytes == {0, 3, 4, 255}

\* scenario 1: pushbyte a; pushbyte b; add; returnvalue
Arith(a, b) == <<Ins("PushByte", <<a>>), Ins("PushByte", <<b>>), Ins("Add", <<>>),
                 Ins("ReturnValue", <<>>)>>

\* two pushes, an integer operation, returnvalue
IntegerCode(p1, p2, op) == <<p1, p2, Ins(op, <<>>), Ins("ReturnValue", <<>>)>>
\* a push, convert_i, returnvalue
ConvertCode(p) == <<p, Ins("ConvertToInteger", <<>>), Ins("ReturnValue", <<>>)>>

\* 2147483647 + 1, 2.5 + 3.7, -2147483647 - 3, 3.7 - 2.5, and convert_i of
\* 3.7, of NaN (doubles[0]) and of null
IntegerCodes == {
    IntegerCode(Ins("PushInteger", <<2>>), Ins("PushByte", <<1>>), "AddInteger"),
    IntegerCode(Ins("PushDouble", <<1>>), Ins("PushDouble", <<2>>), "AddInteger"),
    IntegerCode(Ins("PushInteger", <<3>>), Ins("PushByte", <<3>>), "SubtractInteger"),
    IntegerCode(Ins("PushDouble", <<2>>), Ins("PushDouble", <<1>>), "SubtractInteger"),
    ConvertCode(Ins("PushDouble", <<2>>)),
    ConvertCode(Ins("PushDouble", <<0>>)),
    ConvertCode(Ins("PushNull", <<>>)) }

\* the pushes whose value ToBoolean takes to false: null, false, 0, NaN
\* (doubles[0]), the empty string (strings[1]), undefined (a killed register)
FalsePushers == {
    <<Ins("PushNull", <<>>)>>, <<Ins("PushFalse", <<>>)>>, <<Ins("PushByte", <<0>>)>>,
    <<Ins("PushDouble", <<0>>)>>, <<Ins("PushString", <<1>>)>>,
    <<Ins("Kill", <<1>>), Ins("GetLocal1", <<>>)>> }
\* and to true: true, 3, 2.5, the string "x", an object
TruePushers == {
    <<Ins("PushTrue", <<>>)>>, <<Ins("PushByte", <<3>>)>>, <<Ins("PushDouble", <<1>>)>>,
    <<Ins("PushString", <<2>>)>>, <<Ins("GetLocal0", <<>>)>> }

\* push; iffalse +3; pushbyte 10; returnvalue; pushbyte 20; returnvalue
IfFalseCode(p) ==
    p \o <<Ins("IfFalse", <<3>>), Ins("PushByte", <<10>>), Ins("ReturnValue", <<>>),
           Ins("PushByte", <<20>>), Ins("ReturnValue", <<>>)>>

\* scenario 3: pushbyte v1; pushbyte v2; iflt off; pushbyte 10; returnvalue;
\* pushbyte 20; returnvalue
Branch(v1, v2, off) ==
    <<Ins("PushByte", <<v1>>), Ins("PushByte", <<v2>>), Ins("IfLT", <<off>>),
      Ins("PushByte", <<10>>), Ins("ReturnValue", <<>>),
      Ins("PushByte", <<20>>), Ins("ReturnValue", <<>>)>>

\* the instructions that push the value v of scenario 6
ValuePushers == {Ins("PushByte", <<42>>), Ins("PushByte", <<0>>), Ins("PushTrue", <<>>),
                 Ins("PushNull", <<>>), Ins("GetLocal1", <<>>)}

\* scenario 6: getlocal_0; pushstring "x"; push v; initproperty "::x"; getlocal_0;
\* getproperty "::x"; returnvalue
PropertyInitGet(push) ==
    <<Ins("GetLocal0", <<>>), Ins("PushString", <<2>>), push, Ins("InitProperty", <<1>>),
      Ins("GetLocal0", <<>>), Ins("GetProperty", <<1>>), Ins("ReturnValue", <<>>)>>

\* the same without the pushstring: the object is directly under the value
PropertyInitGetDirect(push) ==
    <<Ins("GetLocal0", <<>>), push, Ins("InitProperty", <<1>>),
      Ins("GetLocal0", <<>>), Ins("GetProperty", <<1>>), Ins("ReturnValue", <<>>)>>

\* a throw inside the range of an exception-table entry whose target is the
\* pushbyte 9 at byte 3
ThrowCode == <<Ins("PushByte", <<1>>), Ins("Throw", <<>>), Ins("PushByte", <<9>>),
               Ins("ReturnValue", <<>>)>>
ThrowExceptions == <<[from_ |-> 0, to |-> 3, target |-> 3, exc_type_index |-> 0,
                      var_name_index |-> 0]>>

\* newclass, then an instruction of the caller
NewClassCode == <<Ins("PushNull", <<>>), Ins("NewClass", <<0>>), Ins("Pop", <<>>),
                  Ins("PushByte", <<3>>), Ins("ReturnValue", <<>>)>>
ClassInitializers == {<<Ins("ReturnVoid", <<>>)>>,
                      <<Ins("PushByte", <<4>>), Ins("ReturnValue", <<>>)>>,
                      <<Ins("GetLocal0", <<>>), Ins("PushScope", <<>>)>>,
                      <<Ins("PushByte", <<4>>), Ins("NewClass", <<0>>)>>}

\* a call with one argument: the function, the receiver, the argument
CallCode == <<Ins("GetLocal1", <<>>), Ins("GetLocal0", <<>>), Ins("PushByte", <<3>>),
              Ins("Call", <<1>>), Ins("ReturnValue", <<>>)>>

\* a call and a construct with two arguments that differ
CallTwo == <<Ins("GetLocal1", <<>>), Ins("GetLocal0", <<>>), Ins("PushByte", <<3>>),
             Ins("PushByte", <<4>>), Ins("Call", <<2>>), Ins("ReturnValue", <<>>)>>
ConstructTwo == <<Ins("PushNull", <<>>), Ins("GetLocal2", <<>>), Ins("PushByte", <<3>>),
                  Ins("PushByte", <<4>>), Ins("Construct", <<2>>), Ins("ReturnValue", <<>>)>>

\* constructsuper on a receiver that is null, under n arguments
ConstructSuperNull(n) ==
    <<Ins("PushNull", <<>>)>> \o [i \in 1..n |-> Ins("PushByte", <<3>>)]
        \o <<Ins("ConstructSuper", <<n>>), Ins("ReturnVoid", <<>>)>>

\* a name held by the receiver and by the one object of the scope stack
ScopeShadow(find) ==
    <<Ins("PushString", <<2>>), Ins("Dup", <<>>), Ins("PushByte", <<3>>),
      Ins("InitProperty", <<2>>), Ins("PushScope", <<>>), Ins(find, <<2>>)>>

\* a name held by two objects of the scope stack and not by the receiver
ScopeNested(find) ==
    <<Ins("PushString", <<2>>), Ins("Dup", <<>>), Ins("PushByte", <<3>>),
      Ins("InitProperty", <<1>>), Ins("PushScope", <<>>),
      Ins("PushString", <<3>>), Ins("Dup", <<>>), Ins("PushByte", <<4>>),
      Ins("InitProperty", <<1>>), Ins("PushScope", <<>>), Ins(find, <<1>>)>>

Finders == {"FindProperty", "FindPropStrict", "GetLex"}

\* generated bodies: a set-up prefix that fills the stacks, then one instruction
SetupInstructions == {Ins("PushByte", <<3>>), Ins("GetLocal0", <<>>), Ins("GetLocal1", <<>>),
                      Ins("GetLocal2", <<>>), Ins("PushString", <<2>>), Ins("PushScope", <<>>)}

ProbeInstructions ==
    {Ins(c.name, <<>>) : c \in {d \in opcode_to_instruction :
                                    d.fields = <<>> /\ d.name \in Implemented}}
    \cup {Ins("Throw", <<>>), Ins("Swap", <<>>), Ins("PushUndefined", <<>>),
          Ins("Jump", <<0>>)}
    \cup {Ins("PushByte", <<255>>), Ins("PushDouble", <<1>>), Ins("PushDouble", <<4>>),
          Ins("PushInteger", <<1>>), Ins("PushString", <<3>>), Ins("GetScopeObject", <<0>>),
          Ins("Kill", <<0>>), Ins("Kill", <<1>>)}
    \cup {Ins(n, <<i>>) : n \in {"FindProperty", "FindPropStrict", "GetLex", "GetProperty",
                                 "InitProperty"}, i \in {1, 2}}
    \cup {Ins(n, <<k>>) : n \in {"Call", "Construct", "ConstructSuper"}, k \in {0, 1}}
    \cup {Ins("CallProperty", <<i, k>>) : i \in {1, 2}, k \in {0, 1}}
    \cup {Ins(n, <<3>>) : n \in {"IfFalse", "IfLT", "IfNGT", "IfNLT"}}
    \cup {Ins("GetLocal", <<1>>), Ins("SetLocal", <<1>>)}
    \cup {Ins("NewClass", <<0>>)}

Setups == UNION {[1..k -> SetupInstructions] : k \in 0..MaxSetup}

DefaultInitializer == <<Ins("ReturnVoid", <<>>)>>

\* ASOptionDetail: an index into the constant pool and the kind of constant
OptionDetail == [value |-> 1, kind |-> "INT"]

\* method_info records with their body's local_count: NEED_REST and
\* NEED_ARGUMENTS under an option list that is empty, one declared optional
\* value, three parameters under an empty option list and under none, and
\* a body with fewer registers than parameters
Signatures == {
    <<[param_count |-> 1, flags |-> {"NEED_REST", "HAS_OPTIONAL"}, options |-> Options(<<>>)], 3>>,
    <<[param_count |-> 1, flags |-> {"NEED_ARGUMENTS", "HAS_OPTIONAL"}, options |-> Options(<<>>)], 3>>,
    <<[param_count |-> 1, flags |-> {"NEED_REST"}, options |-> NoOptions], 3>>,
    <<[param_count |-> 1, flags |-> {"HAS_OPTIONAL"}, options |-> Options(<<OptionDetail>>)], 2>>,
    <<[param_count |-> 3, flags |-> {"HAS_OPTIONAL"}, options |-> Options(<<>>)], 4>>,
    <<[param_count |-> 3, flags |-> {}, options |-> NoOptions], 2>> }

\* a body that reads its first parameter
SignatureCode == <<Ins("GetLocal1", <<>>), Ins("ReturnValue", <<>>)>>

\* the file whose method 0 has the given method_info and local_count
ABCFileOf(signature) ==
    [ABCFile(SignatureCode, <<>>, DefaultInitializer) EXCEPT
        !.methods[1] = signature[1],
        !.method_bodies[1].local_count = signature[2]]

\* a file with two bodies for method 0 (the second returns 4), and a file
\* in which method 0 has no body: its body names method 1, as the body of
\* the class initializer does
TwoBodies ==
    [ABCFile(SignatureCode, <<>>, DefaultInitializer) EXCEPT
        !.method_bodies = @ \o <<MethodBody(0, 4,
            Asm(<<Ins("PushByte", <<4>>), Ins("ReturnValue", <<>>)>>), <<>>)>>]
NoBody ==
    [ABCFile(SignatureCode, <<>>, DefaultInitializer) EXCEPT !.method_bodies[1].method = 1]

\* a body that is one lookupswitch: default offset 0, case_count 0, one
\* case offset 0
LookupSwitchFile ==
    [ABCFile(<<>>, <<>>, DefaultInitializer) EXCEPT
        !.method_bodies[1].code = <<27>> \o encode_s24(0) \o encode_u30(0) \o encode_s24(0)]

ABCFiles ==
    {ABCFile(Arith(a, b), <<>>, DefaultInitializer) : a \in Bytes, b \in Bytes}
    \cup {ABCFile(Branch(v1, v2, off), <<>>, DefaultInitializer) :
             v1 \in {1, 2}, v2 \in {1, 2}, off \in {3, 0, -4}}
    \cup {ABCFile(PropertyInitGet(p), <<>>, DefaultInitializer) : p \in ValuePushers}
    \cup {ABCFile(PropertyInitGetDirect(p), <<>>, DefaultInitializer) : p \in ValuePushers}
    \cup {ABCFile(ThrowCode, ThrowExceptions, DefaultInitializer)}
    \cup {ABCFile(NewClassCode, <<>>, c) : c \in ClassInitializers}
    \cup {ABCFile(CallCode, <<>>, DefaultInitializer)}
    \cup {ABCFile(CallTwo, <<>>, DefaultInitializer), ABCFile(ConstructTwo, <<>>, DefaultInitializer)}
    \cup {ABCFile(ConstructSuperNull(n), <<>>, DefaultInitializer) : n \in {0, 1}}
    \cup {ABCFileOf(s) : s \in Signatures}
    \cup {TwoBodies, NoBody, LookupSwitchFile}
    \cup {ABCFile(IfFalseCode(p), <<>>, DefaultInitializer) : p \in FalsePushers \cup TruePushers}
    \cup {ABCFile(c, <<>>, DefaultInitializer) : c \in IntegerCodes}
    \cup {ABCFile(ScopeShadow(f), <<>>, DefaultInitializer) : f \in Finders}
    \cup {ABCFile(ScopeNested(f), <<>>, DefaultInitializer) : f \in Finders}
    \cup {ABCFile(s \o <<p>>, <<>>, DefaultInitializer) : s \in Setups, p \in ProbeInstructions}

\* the arguments execute_method is called with
Arguments == {<<>>,
              <<IntV(5)>>,
              <<Ref(FunctionId), Ref(ClassId), IntV(5)>>,
              <<Ref(FunctionId), Ref(ClassId), IntV(5), IntV(7)>>}

-----------------------------------------------------------------------------
(* Python's view of the values the handlers compute with.                  *)

RECURSIVE Gcd(_, _)
Gcd(a, b) == IF b = 0 THEN a ELSE Gcd(b, a % b)
Abs(a) == IF a < 0 THEN -a ELSE a

\* a float from a fraction; den 0 is NaN
Float(n, d) ==
    IF d = 0 THEN DoubleV(0, 0)
    ELSE LET g == Gcd(Abs(n), Abs(d))
             s == IF d < 0 THEN -1 ELSE 1
         IN DoubleV((s * n) \div g, (s * d) \div g)

IsNaN(x) == x.t = "double" /\ x.v[2] = 0
Numerator(x) == IF x.t = "double" THEN x.v[1] ELSE x.v
Denominator(x) == IF x.t = "double" THEN x.v[2] ELSE 1

\* a handler's local result: the value, or the exception the expression raises
Value(v) == [exc |-> "", v |-> v]
Error(exc) == [exc |-> exc, v |-> Null]

\* value_1 + value_2
py_add(x, y) ==
    IF ~(IsNumber(x) /\ IsNumber(y)) THEN Error("TypeError")
    ELSE IF x.t = "double" \/ y.t = "double"
    THEN IF IsNaN(x) \/ IsNaN(y) THEN Value(DoubleV(0, 0))
         ELSE Value(Float(Numerator(x) * Denominator(y) + Numerator(y) * Denominator(x),
                          Denominator(x) * Denominator(y)))
    ELSE Value(IntV(x.v + y.v))

\* value_1 / value_2
py_truediv(x, y) ==
    IF ~(IsNumber(x) /\ IsNumber(y)) THEN Error("TypeError")
    ELSE IF ~IsNaN(y) /\ Numerator(y) = 0 THEN Error("ZeroDivisionError")
    ELSE IF IsNaN(x) \/ IsNaN(y) THEN Value(DoubleV(0, 0))
    ELSE Value(Float(Numerator(x) * Denominator(y), Denominator(x) * Numerator(y)))

\* int(value): truncation toward zero
py_int(x) ==
    CASE x.t \in {"int", "bool"} -> Value(IntV(x.v))
      [] x.t = "double" ->
            IF IsNaN(x) THEN Error("ValueError")
            ELSE Value(IntV(IF x.v[1] >= 0 THEN x.v[1] \div x.v[2]
                            ELSE -((-x.v[1]) \div x.v[2])))
      [] OTHER -> Error("TypeError")

\* float(value)
py_float(x) ==
    CASE x.t \in {"int", "bool"} -> Value(DoubleV(x.v, 1))
      [] x.t = "double" -> Value(x)
      [] OTHER -> Error("TypeError")

\* value_1 < value_2
py_lt(x, y) ==
    IF ~(IsNumber(x) /\ IsNumber(y)) THEN Error("TypeError")
    ELSE IF IsNaN(x) \/ IsNaN(y) THEN Value(BoolV(FALSE))
    ELSE Value(BoolV(Numerator(x) * Denominator(y) < Numerator(y) * Denominator(x)))

\* value_1 > value_2
py_gt(x, y) == py_lt(y, x)

\* value_1 >= value_2
py_ge(x, y) ==
    IF ~(IsNumber(x) /\ IsNumber(y)) THEN Error("TypeError")
    ELSE IF IsNaN(x) \/ IsNaN(y) THEN Value(BoolV(FALSE))
    ELSE Value(BoolV(Numerator(x) * Denominator(y) >= Numerator(y) * Denominator(x)))

\* bool(value): numbers by value (NaN is true), None false, every object true
py_bool(x) ==
    CASE x.t \in {"int", "bool"} -> x.v # 0
      [] x.t = "double" -> IsNaN(x) \/ x.v[1] # 0
      [] x.t = "null" -> FALSE
      [] OTHER -> TRUE

-----------------------------------------------------------------------------
(* The pieces of VirtualMachine that the handlers call.                    *)

\* link_method_bodies: a dict comprehension, so the last body of a method wins
BodiesOf(m) == {i \in 0..(Len(abc.method_bodies) - 1) : At(abc.method_bodies, i).method = m}
method_to_body(m) == CHOOSE i \in BodiesOf(m) : \A j \in BodiesOf(m) : j <= i

\* the quick-access tables of the machine
multinames == abc.constant_pool.multinames
strings == abc.constant_pool.strings
doubles == abc.constant_pool.doubles
integers == abc.constant_pool.integers
namespaces == abc.constant_pool.namespaces

\* machine.global_object
global_object == Ref(GlobalId)

\* get_constant(kind, 0) for the two kinds the handlers ask for
get_constant(kind) == IF kind = "UNDEFINED" THEN undefined ELSE Null

\* resolve_multiname_identifiers for a static name: nothing is popped; the
\* name and the namespaces to try, in order
resolve_multiname_identifiers(multiname) ==
    [name |-> At(strings, multiname.name_index),
     namespaces |-> <<At(strings, At(namespaces, multiname.namespace_index).name_index)>>]

\* the property map of a value; a value that is no object has none
PropertiesOf(h, x) == IF IsRef(x) THEN h[x.v].properties ELSE EmptyProperties

HasProperty(h, x, ns, name) == <<ns, name>> \in DOMAIN PropertiesOf(h, x)

\* resolve_multiname: the first object of the list holding (ns, name) for a
\* namespace of the list, each object trying the namespaces in order;
\* found FALSE stands for the KeyError
resolve_multiname(h, objects, name, nss) ==
    LET hits == {i \in 1..Len(objects) :
                    \E k \in 1..Len(nss) : HasProperty(h, objects[i], nss[k], name)}
    IN IF hits = {} THEN [found |-> FALSE, parent |-> Null, name |-> name, namespace |-> ""]
       ELSE LET i == CHOOSE i \in hits : \A j \in hits : i <= j
                ks == {k \in 1..Len(nss) : HasProperty(h, objects[i], nss[k], name)}
                k == CHOOSE k \in ks : \A j \in ks : k <= j
            IN [found |-> TRUE, parent |-> objects[i], name |-> name, namespace |-> nss[k]]

\* ASObject.get_property, and ASString.get_property for a name that is no int
get_property(h, x, ns, name) ==
    IF h[x.v].cls = "ASString"
    THEN IF <<ns, name>> \in DOMAIN ASString_properties
         THEN Value(ASString_properties[<<ns, name>>]) ELSE Error("KeyError")
    ELSE IF <<ns, name>> \in DOMAIN h[x.v].properties
         THEN Value(h[x.v].properties[<<ns, name>>]) ELSE Error("KeyError")

\* resolve_qname: the value of the resolved property
resolve_qname(h, parent, ns, name) == get_property(h, parent, ns, name)

\* the write going to a dict that the objects of a class share
set_property_shared(h, x, ns, name, value) ==
    [i \in DOMAIN h |->
        IF h[i].cls = h[x.v].cls
        THEN [h[i] EXCEPT !.properties = (<<ns, name>> :> value) @@ @] ELSE h[i]]

\* object.properties[ns, name] = value: properties is the dict that
\* ASObject.__init__ gave this instance
set_property(h, x, ns, name, value) ==
    [h EXCEPT ![x.v].properties = (<<ns, name>> :> value) @@ @]

\* the list [registers[0]] + scope_stack that the find instructions search
search_list(env) == <<At(env.registers, 0)>> \o env.scope_stack

-----------------------------------------------------------------------------
(* Method environments.                                                    *)

\* a Python list held in a register (the rest / arguments array)
ListV(items) == [t |-> "list", v |-> items]

\* get_optional_value raises NotImplementedError for every option
get_optional_value(option) == Error("NotImplementedError")

\* registers[k + 1 ..] after the defaults loop: i runs over range(k + 1, local_count)
RECURSIVE fill_defaults(_, _, _, _)
fill_defaults(registers, i, local_count, options) ==
    IF i >= local_count THEN Value(registers)
    ELSE IF options.none THEN Error("TypeError")
    ELSE IF i <= Len(options.items) THEN get_optional_value(At(options.items, i - 1))
    ELSE fill_defaults([registers EXCEPT ![i + 1] = undefined], i + 1, local_count, options)

\* list[from:] of a Python list
SliceFrom(s, from) == IF from >= Len(s) THEN <<>> ELSE SubSeq(s, from + 1, Len(s))

\* create_method_environment: the registers, or the exception it raises
create_method_environment(method, method_body, this, arguments) ==
    LET L == method_body.local_count
        k == Len(arguments)
        filled == <<this>> \o arguments \o SliceFrom([i \in 1..L |-> Ellipsis], k + 1)
        defaults == fill_defaults(filled, k + 1, L, method.options)
        slot == method.param_count + 1
        rest == IF "NEED_REST" \in method.flags
                THEN [defaults.v EXCEPT ![slot + 1] = ListV(SliceFrom(arguments, method.param_count))]
                ELSE defaults.v
        all == IF "NEED_ARGUMENTS" \in method.flags
               THEN [rest EXCEPT ![slot + 1] = ListV(arguments)]
               ELSE rest
    IN IF L = 0 THEN Error("IndexError")
       ELSE IF k > method.param_count THEN Error("AssertionError")
       ELSE IF Len(method.options.items) > 0
               /\ Len(method.options.items) > method.param_count THEN Error("AssertionError")
       ELSE IF defaults.exc # "" THEN defaults
       ELSE IF ("NEED_REST" \in method.flags \/ "NEED_ARGUMENTS" \in method.flags)
               /\ slot >= Len(defaults.v) THEN Error("IndexError")
       ELSE IF Len(all) # L THEN Error("AssertionError")
       ELSE Value(all)

\* an environment whose operand stack starts with the receiver on it
MethodEnvironment_nonempty(body, registers) ==
    [body |-> body, position |-> 0, registers |-> registers,
     operand_stack |-> <<registers[1]>>, scope_stack |-> <<>>]

\* MethodEnvironment(registers=registers) with the reader execute_code makes
MethodEnvironment(body, registers) ==
    [body |-> body, position |-> 0, registers |-> registers,
     operand_stack |-> <<>>, scope_stack |-> <<>>]

\* execute_method -> execute_method_body, up to the start of execute_code
enter_method(index, this, arguments) ==
    IF BodiesOf(index) = {} THEN Error("KeyError")
    ELSE LET b == method_to_body(index)
             method_body == At(abc.method_bodies, b)
             r == create_method_environment(At(abc.methods, method_body.method),
                                            method_body, this, arguments)
         IN IF r.exc # "" THEN r ELSE Value(MethodEnvironment(b, r.v))

\* call_method(index, this): the invocation of a method on a receiver
call_method(index, this) == enter_method(index, this, <<>>)

-----------------------------------------------------------------------------
(* The interpreter loop.                                                   *)

Top == frames[Len(frames)]
Code == At(abc.method_bodies, Top.body).code
Running == outcome.kind = "running" /\ frames # <<>>

\* read_instruction(reader) at the reader's position
Fetched == read_instruction(Code, Top.position)

\* the loop dispatches on the class of the instruction read_instruction returned
Dispatch(name, ins) == ins.ok /\ ins.name = name

NoInstruction == [name |-> "", args |-> <<>>, position |-> 0, depth |-> 0, before |-> 0,
                  scope_before |-> 0, completed |-> FALSE, note |-> "", invoked |-> <<>>]

Dispatched(ins, completed, note) ==
    [name |-> ins.name, args |-> ins.args, position |-> Top.position,
     depth |-> Len(frames), before |-> Len(Top.operand_stack),
     scope_before |-> Len(Top.scope_stack), completed |-> completed, note |-> note,
     invoked |-> <<>>]

\* what a handler did: exc "" when execute returned; invoked lists the calls
\* it made out of the machine
Completed(env, h, note) ==
    [exc |-> "", payload |-> Null, env |-> env, heap |-> h, note |-> note, invoked |-> <<>>]
Raises(exc, payload, env, h, note) ==
    [exc |-> exc, payload |-> payload, env |-> env, heap |-> h, note |-> note,
     invoked |-> <<>>]

\* one call made by a handler: callee(receiver, args) returned result
Invocation(callee, receiver, args, result) ==
    [callee |-> callee, receiver |-> receiver, args |-> args, result |-> result]

\* an exception leaves execute_code; no caller up the host stack catches it
Propagate(exc, payload) ==
    /\ frames' = <<>>
    /\ outcome' = [kind |-> "raised", exc |-> exc, value |-> payload]

\* execute_code: the handler has run; the loop goes on with the next
\* instruction, or the exception the handler raised leaves the loop
execute_code(ins, r) ==
    /\ IF r.exc = ""
       THEN /\ frames' = [frames EXCEPT ![Len(frames)] =
                             [r.env EXCEPT !.position = ins.pos]]
            /\ outcome' = outcome
       ELSE Propagate(r.exc, r.payload)
    /\ heap' = r.heap
    /\ last' = [Dispatched(ins, r.exc = "", r.note) EXCEPT !.invoked = r.invoked]
    /\ UNCHANGED <<abc, class_objects>>

\* the operand stack of an environment
Depth(env) == Len(env.operand_stack)
Peek(env, k) == env.operand_stack[Depth(env) - k]
Drop(env, n) == [env EXCEPT !.operand_stack = SubSeq(@, 1, Len(@) - n)]
Push(env, v) == [env EXCEPT !.operand_stack = Append(@, v)]
\* the n topmost values, in push order: the popped list, reversed
TopValues(env, n) == SubSeq(env.operand_stack, Depth(env) - n + 1, Depth(env))

Underflow(env, h) == Raises("IndexError", Null, env, h, "")

-----------------------------------------------------------------------------
(* The handlers: execute(machine, environment) of each instruction class.  *)
(* self is the decoded instruction, env the environment, h the heap.       *)

\* Python's int has no width: the sum or difference of two 32-bit integers
\* that is outside the 32-bit range is kept with its own tag, "int above"
\* standing for 2^31 + lo and "int below" for -2^32 + lo, 0 <= lo < 2^31
MaxInt32 == 2147483647
MinInt32 == (-2147483647) - 1
Wide(hi, lo) == [t |-> IF hi > 0 THEN "int above" ELSE "int below", v |-> lo]
IsInt32(x) == x.t = "int"

\* a + b over the 32-bit integers a and b
py_int_sum(a, b) ==
    IF a > 0 /\ b > 0 /\ a > MaxInt32 - b THEN Wide(1, (a - (MaxInt32 - b)) - 1)
    ELSE IF a < 0 /\ b < 0 /\ a < MinInt32 - b THEN Wide(-2, (a - MinInt32) + (b - MinInt32))
    ELSE IntV(a + b)

\* a - b over the 32-bit integers a and b
py_int_difference(a, b) ==
    IF a >= 0 /\ b < 0 /\ a > MaxInt32 + b THEN Wide(1, (a - (MaxInt32 + b)) - 1)
    ELSE IF a < 0 /\ b > 0 /\ a < MinInt32 + b THEN Wide(-2, (a - MinInt32) + (MaxInt32 - b) + 1)
    ELSE IntV(a - b)

py_add_int(x, y) ==
    LET a == py_int(x) b == py_int(y) IN
    \* int(value_1) is evaluated first
    IF a.exc # "" THEN a ELSE IF b.exc # "" THEN b ELSE Value(py_int_sum(a.v.v, b.v.v))

py_sub_int(x, y) ==
    LET a == py_int(x) b == py_int(y) IN
    IF a.exc # "" THEN a ELSE IF b.exc # "" THEN b ELSE Value(py_int_difference(a.v.v, b.v.v))

\* the Python operator a handler applies to value_1 and value_2
py_binary(op, x, y) ==
    CASE op = "+" -> py_add(x, y)
      [] op = "int+" -> py_add_int(x, y)
      [] op = "int-" -> py_sub_int(x, y)
      [] op = "/" -> py_truediv(x, y)
      [] op = ">=" -> py_ge(x, y)
      [] op = "<" -> py_lt(x, y)
      [] op = ">" -> py_gt(x, y)

\* the conversion a handler applies to the topmost value
py_unary(op, x) == IF op = "int" THEN py_int(x) ELSE py_float(x)

\* a binary operator over the two topmost values
Binary(env, h, op) ==
    IF Depth(env) < 2 THEN Underflow(env, h)
    ELSE LET r == py_binary(op, Peek(env, 1), Peek(env, 0)) IN
         IF r.exc # "" THEN Raises(r.exc, Null, env, h, "")
         ELSE Completed(Push(Drop(env, 2), r.v), h, "")

\* a conversion of the topmost value
Unary(env, h, op) ==
    IF Depth(env) < 1 THEN Underflow(env, h)
    ELSE LET r == py_unary(op, Peek(env, 0)) IN
         IF r.exc # "" THEN Raises(r.exc, Null, env, h, "")
         ELSE Completed(Push(Drop(env, 1), r.v), h, "")

Add_execute(self, env, h) == Binary(env, h, "+")

AddInteger_execute(self, env, h) == Binary(env, h, "int+")
SubtractInteger_execute(self, env, h) == Binary(env, h, "int-")
Divide_execute(self, env, h) == Binary(env, h, "/")
GreaterEquals_execute(self, env, h) == Binary(env, h, ">=")
ConvertToInteger_execute(self, env, h) == Unary(env, h, "int")
ConvertToDouble_execute(self, env, h) == Unary(env, h, "float")

\* a dup that reads the top value and pushes nothing
Dup_execute_peek(self, env, h) ==
    IF Depth(env) < 1 THEN Underflow(env, h) ELSE Completed(env, h, "")

Dup_execute(self, env, h) ==
    IF Depth(env) < 1 THEN Underflow(env, h)
    ELSE Completed(Push(Push(Drop(env, 1), Peek(env, 0)), Peek(env, 0)), h, "")

Pop_execute(self, env, h) ==
    IF Depth(env) < 1 THEN Underflow(env, h) ELSE Completed(Drop(env, 1), h, "")

PopScope_execute(self, env, h) ==
    IF env.scope_stack = <<>> THEN Underflow(env, h)
    ELSE Completed([env EXCEPT !.scope_stack = SubSeq(@, 1, Len(@) - 1)], h, "")

PushScope_execute(self, env, h) ==
    IF Depth(env) < 1 THEN Underflow(env, h)
    ELSE IF Peek(env, 0) = Null \/ Peek(env, 0) = undefined
    THEN Raises("AssertionError", Null, env, h, "")
    ELSE Completed([Drop(env, 1) EXCEPT !.scope_stack = Append(@, Peek(env, 0))], h, "")

PushByte_execute(self, env, h) == Completed(Push(env, IntV(self.args[1])), h, "")
PushTrue_execute(self, env, h) == Completed(Push(env, BoolV(TRUE)), h, "")
PushFalse_execute(self, env, h) == Completed(Push(env, BoolV(FALSE)), h, "")
PushNull_execute(self, env, h) == Completed(Push(env, get_constant("NULL")), h, "")

PushDouble_execute(self, env, h) ==
    IF ~InRange(doubles, self.args[1]) THEN Raises("IndexError", Null, env, h, "")
    ELSE Completed(Push(env, At(doubles, self.args[1])), h, "")

PushInteger_execute(self, env, h) ==
    IF ~InRange(integers, self.args[1]) THEN Raises("IndexError", Null, env, h, "")
    ELSE Completed(Push(env, IntV(At(integers, self.args[1]))), h, "")

\* ASString(machine.strings[index]): a new object each time
PushString_execute(self, env, h) ==
    IF ~InRange(strings, self.args[1]) THEN Raises("IndexError", Null, env, h, "")
    ELSE Completed(Push(env, Ref(Len(h) + 1)),
                   Append(h, ASString(At(strings, self.args[1]))), "")

GetLocal_n(n, env, h) ==
    IF ~InRange(env.registers, n) THEN Raises("IndexError", Null, env, h, "")
    ELSE Completed(Push(env, At(env.registers, n)), h, "")

GetLocal0_execute(self, env, h) == GetLocal_n(0, env, h)
GetLocal1_execute(self, env, h) == GetLocal_n(1, env, h)
GetLocal2_execute(self, env, h) == GetLocal_n(2, env, h)
GetLocal3_execute(self, env, h) == GetLocal_n(3, env, h)

\* registers[n] = operand_stack.pop(): the pop comes first
SetLocal_n(n, env, h) ==
    IF Depth(env) < 1 THEN Underflow(env, h)
    ELSE IF ~InRange(env.registers, n) THEN Raises("IndexError", Null, env, h, "")
    ELSE Completed([Drop(env, 1) EXCEPT !.registers[n + 1] = Peek(env, 0)], h, "")

SetLocal0_execute(self, env, h) == SetLocal_n(0, env, h)
SetLocal1_execute(self, env, h) == SetLocal_n(1, env, h)
SetLocal2_execute(self, env, h) == SetLocal_n(2, env, h)
SetLocal3_execute(self, env, h) == SetLocal_n(3, env, h)

Kill_execute(self, env, h) ==
    IF ~InRange(env.registers, self.args[1]) THEN Raises("IndexError", Null, env, h, "")
    ELSE Completed([env EXCEPT !.registers[self.args[1] + 1] = get_constant("UNDEFINED")],
                   h, "")

GetScopeObject_execute(self, env, h) ==
    IF ~InRange(env.scope_stack, self.args[1]) THEN Raises("IndexError", Null, env, h, "")
    ELSE Completed(Push(env, At(env.scope_stack, self.args[1])), h, "")

\* raise ASReturnException(operand_stack.pop())
ReturnValue_execute(self, env, h) ==
    IF Depth(env) < 1 THEN Underflow(env, h)
    ELSE Raises("ASReturnException", Peek(env, 0), Drop(env, 1), h, "")

\* raise ASReturnException(undefined)
ReturnVoid_execute(self, env, h) == Raises("ASReturnException", undefined, env, h, "")

\* if not operand_stack.pop(): raise ASJumpException(offset)
IfFalse_execute(self, env, h) ==
    IF Depth(env) < 1 THEN Underflow(env, h)
    ELSE IF ~py_bool(Peek(env, 0))
    THEN Raises("ASJumpException", IntV(self.args[1]), Drop(env, 1), h, "taken")
    ELSE Completed(Drop(env, 1), h, "not taken")

\* a conditional branch on a comparison of the two topmost values; `negate`
\* for the ifn.. forms, which branch when the comparison is not true
Compare(self, env, h, op, negate) ==
    IF Depth(env) < 2 THEN Underflow(env, h)
    ELSE LET r == py_binary(op, Peek(env, 1), Peek(env, 0)) IN
         IF r.exc # "" THEN Raises(r.exc, Null, env, h, "")
         ELSE IF (r.v.v = 1) # negate
         THEN Raises("ASJumpException", IntV(self.args[1]), Drop(env, 2), h, "taken")
         ELSE Completed(Drop(env, 2), h, "not taken")

IfLT_execute(self, env, h) == Compare(self, env, h, "<", FALSE)
IfNGT_execute(self, env, h) == Compare(self, env, h, ">", TRUE)
IfNLT_execute(self, env, h) == Compare(self, env, h, "<", TRUE)

\* Instruction.execute, inherited by the classes that define none
Instruction_execute(self, env, h) == Raises("NotImplementedError", Null, env, h, "")

\* the message of a host exception
Message(s) == [t |-> "message", v |-> s]

\* machine.multinames[self.index] and the static name it resolves to;
\* index 0 is the pool's None
NameOf(index) ==
    IF ~InRange(multinames, index) THEN Error("IndexError")
    ELSE IF At(multinames, index).kind = None THEN Error("AttributeError")
    ELSE Value(resolve_multiname_identifiers(At(multinames, index)))

\* a findproperty whose fallback is undefined, the fallback of getproperty
FindProperty_execute_undefined(self, env, h) ==
    LET n == NameOf(self.args[1]) IN
    IF n.exc # "" THEN Raises(n.exc, Null, env, h, "")
    ELSE LET r == resolve_multiname(h, search_list(env), n.v.name, n.v.namespaces) IN
         IF ~r.found THEN Completed(Push(env, undefined), h, "not found")
         ELSE Completed(Push(env, r.parent), h, "found")

FindProperty_execute(self, env, h) ==
    LET n == NameOf(self.args[1]) IN
    IF n.exc # "" THEN Raises(n.exc, Null, env, h, "")
    ELSE LET r == resolve_multiname(h, search_list(env), n.v.name, n.v.namespaces) IN
         IF ~r.found THEN Completed(Push(env, global_object), h, "not found")
         ELSE Completed(Push(env, r.parent), h, "found")

FindPropStrict_execute(self, env, h) ==
    LET n == NameOf(self.args[1]) IN
    IF n.exc # "" THEN Raises(n.exc, Null, env, h, "")
    ELSE LET r == resolve_multiname(h, search_list(env), n.v.name, n.v.namespaces) IN
         IF ~r.found
         THEN Raises("NotImplementedError", Message("ReferenceError"), env, h, "not found")
         ELSE Completed(Push(env, r.parent), h, "found")

GetLex_execute(self, env, h) ==
    LET n == NameOf(self.args[1]) IN
    IF n.exc # "" THEN Raises(n.exc, Null, env, h, "")
    ELSE LET r == resolve_multiname(h, search_list(env), n.v.name, n.v.namespaces) IN
         IF ~r.found
         THEN Raises("NotImplementedError", Message("ReferenceError"), env, h, "not found")
         ELSE LET value == resolve_qname(h, r.parent, r.namespace, r.name) IN
              IF value.exc # "" THEN Raises(value.exc, Null, env, h, "found")
              ELSE Completed(Push(env, value.v), h, "found")

GetProperty_execute(self, env, h) ==
    LET n == NameOf(self.args[1]) IN
    IF n.exc # "" THEN Raises(n.exc, Null, env, h, "")
    ELSE IF Depth(env) < 1 THEN Underflow(env, h)
    ELSE LET object == Peek(env, 0)
             r == resolve_multiname(h, <<object>>, n.v.name, n.v.namespaces)
         IN IF ~r.found THEN Completed(Push(Drop(env, 1), undefined), h, "not found")
            ELSE LET value == resolve_qname(h, r.parent, r.namespace, r.name) IN
                 IF value.exc # "" THEN Raises(value.exc, Null, env, h, "found")
                 ELSE Completed(Push(Drop(env, 1), value.v), h, "found")

InitProperty_execute(self, env, h) ==
    LET n == NameOf(self.args[1]) IN
    IF n.exc # "" THEN Raises(n.exc, Null, env, h, "")
    ELSE IF Depth(env) < 2 THEN Underflow(env, h)
    ELSE LET value == Peek(env, 0)
             object == Peek(env, 1)
             r == resolve_multiname(h, <<object>>, n.v.name, n.v.namespaces)
         IN IF r.found
            THEN Completed(Drop(env, 2),
                           set_property(h, r.parent, r.namespace, r.name, value), "found")
            \* object.properties['', name] = value
            ELSE IF ~IsRef(object) THEN Raises("AttributeError", Null, env, h, "not found")
            ELSE Completed(Drop(env, 2), set_property(h, object, "", n.v.name, value),
                           "not found")

\* the values a host function may return
HostResults == {undefined, IntV(7)}

\* function.call(receiver, args): only a host function has a call method
call(h, function, receiver, args, result) ==
    IF IsRef(function) /\ h[function.v].cls = "HostFunction"
    THEN Value(result) ELSE Error("AttributeError")

\* a call that hands the arguments over in pop order, without the reverse
Call_execute_unreversed(self, env, h, result) ==
    LET n == self.args[1] IN
    IF Depth(env) < n + 2 THEN Underflow(env, h)
    ELSE LET args == [i \in 1..n |-> Peek(env, i - 1)]
             receiver == Peek(env, n)
             function == Peek(env, n + 1)
             return_value == call(h, function, receiver, args, result)
         IN IF return_value.exc # "" THEN Raises(return_value.exc, Null, env, h, "")
            ELSE [Completed(Push(Drop(env, n + 2), return_value.v), h, "")
                     EXCEPT !.invoked = <<Invocation(function, receiver, args,
                                                     return_value.v)>>]

Call_execute(self, env, h, result) ==
    LET n == self.args[1] IN
    IF Depth(env) < n + 2 THEN Underflow(env, h)
    ELSE LET args == TopValues(env, n)
             receiver == Peek(env, n)
             function == Peek(env, n + 1)
             return_value == call(h, function, receiver, args, result)
         IN IF return_value.exc # "" THEN Raises(return_value.exc, Null, env, h, "")
            ELSE [Completed(Push(Drop(env, n + 2), return_value.v), h, "")
                     EXCEPT !.invoked = <<Invocation(function, receiver, args,
                                                     return_value.v)>>]

CallProperty_execute(self, env, h, result) ==
    LET k == self.args[2] IN
    IF Depth(env) < k THEN Underflow(env, h)
    ELSE LET n == NameOf(self.args[1]) IN
    IF n.exc # "" THEN Raises(n.exc, Null, env, h, "")
    ELSE IF Depth(env) < k + 1 THEN Underflow(env, h)
    ELSE LET args == TopValues(env, k)
             object == Peek(env, k)
             r == resolve_multiname(h, <<object>>, n.v.name, n.v.namespaces)
         IN IF ~r.found
            THEN Raises("NotImplementedError", Message("TypeError"), env, h, "not found")
            ELSE LET return_value ==
                         call(h, h[r.parent.v].properties[<<r.namespace, r.name>>],
                              object, args, result)
                 IN IF return_value.exc # "" THEN Raises(return_value.exc, Null, env, h, "found")
                    ELSE Completed(Push(Drop(env, k + 1), return_value.v), h, "found")

\* constructor.construct(args): only a host class-object has a construct
\* method; it returns a new object
Construct_execute(self, env, h) ==
    LET n == self.args[1] IN
    IF Depth(env) < n + 1 THEN Underflow(env, h)
    ELSE LET constructor == Peek(env, n) IN
         IF IsRef(constructor) /\ h[constructor.v].cls = "HostClass"
         THEN [Completed(Push(Drop(env, n + 1), Ref(Len(h) + 1)), Append(h, ASObject), "")
                  EXCEPT !.invoked = <<Invocation(constructor, Null, TopValues(env, n),
                                                  Ref(Len(h) + 1))>>]
         ELSE Raises("AttributeError", Null, env, h, "")

ConstructSuper_execute(self, env, h) ==
    LET n == self.args[1] IN
    IF Depth(env) < n + 1 THEN Underflow(env, h)
    ELSE LET object == Peek(env, n) IN
         IF object = Null \/ object = undefined
         THEN Raises("NotImplementedError", Message("TypeError"), env, h, "null receiver")
         ELSE Completed(Drop(env, n + 1), h, "")

\* the CONST traits of NewClass: one new ASObject per trait, under (None, name)
RECURSIVE allocate_traits(_, _, _)
allocate_traits(h, class_object, traits) ==
    IF traits = <<>> THEN Value(h)
    ELSE LET trait == Head(traits) IN
         IF trait.kind # "CONST" THEN allocate_traits(h, class_object, Tail(traits))
         ELSE IF ~InRange(multinames, trait.name_index) THEN Error("IndexError")
         ELSE IF At(multinames, trait.name_index).kind = None THEN Error("AttributeError")
         ELSE LET name == At(strings, At(multinames, trait.name_index).name_index)
                  h2 == Append(h, ASObject)
              IN allocate_traits(set_property(h2, class_object, None, name, Ref(Len(h2))),
                                 class_object, Tail(traits))

-----------------------------------------------------------------------------
(* The state machine.                                                      *)

\* the objects that exist when the host calls into the machine: undefined,
\* the global object, the receiver (with one property, y, a host function),
\* a host function and a host class-object
InitialHeap == <<
    ASUndefined,
    ASObject,
    [ASObject EXCEPT !.properties = (<<"", "y">> :> Ref(FunctionId))],
    HostFunction,
    HostClass >>

Idle == [kind |-> "idle", exc |-> "", value |-> Null]

\* VirtualMachine(abc_file)
Init ==
    /\ abc \in ABCFiles
    /\ frames = <<>>
    /\ heap = InitialHeap
    /\ class_objects = [c \in {} |-> 0]
    /\ outcome = Idle
    /\ last = NoInstruction

\* the host's call: execute_method -> execute_method_body -> execute_code
Enter(entry, index, this, arguments) ==
    LET e == enter_method(index, this, arguments) IN
    /\ outcome.kind = "idle"
    /\ IF e.exc # ""
       THEN Propagate(e.exc, Null)
       ELSE /\ frames' = <<e.v>>
            /\ outcome' = [kind |-> "running", exc |-> "", value |-> Null]
    /\ last' = [NoInstruction EXCEPT
                    !.note = entry,
                    !.invoked = <<Invocation(index, this, arguments, Null)>>]
    /\ UNCHANGED <<abc, heap, class_objects>>

execute_method ==
    \E arguments \in Arguments : Enter("execute_method", 0, Ref(ThisId), arguments)

\* execute_entry_point -> execute_script(scripts[-1]) -> execute_method(init, this=...)
execute_entry_point ==
    /\ abc.scripts # <<>>
    /\ Enter("execute_entry_point", abc.scripts[Len(abc.scripts)].init, Ellipsis, <<>>)

\* read_instruction raises: the end of the code, an opcode that is no key of
\* opcode_to_instruction, an operand cut short
DecodeError ==
    /\ Running
    /\ \E ins \in {Fetched} :
          /\ ~ins.ok
          /\ Propagate(ins.exc, Null)
          /\ last' = [NoInstruction EXCEPT !.name = ins.name, !.position = Top.position,
                                           !.depth = Len(frames), !.note = "decode"]
    /\ UNCHANGED <<abc, heap, class_objects>>

\* a class that inherits Instruction.execute
NotImplemented ==
    /\ Running
    /\ \E ins \in {Fetched} :
          /\ ins.ok
          /\ ins.name \notin Implemented
          /\ execute_code(ins, Instruction_execute(ins, Top, heap))

Add ==
    /\ Running
    /\ \E ins \in {Fetched} :
          Dispatch("Add", ins) /\ execute_code(ins, Add_execute(ins, Top, heap))
AddInteger ==
    /\ Running
    /\ \E ins \in {Fetched} :
          Dispatch("AddInteger", ins) /\ execute_code(ins, AddInteger_execute(ins, Top, heap))
SubtractInteger ==
    /\ Running
    /\ \E ins \in {Fetched} :
          Dispatch("SubtractInteger", ins) /\ execute_code(ins, SubtractInteger_execute(ins, Top, heap))
Divide ==
    /\ Running
    /\ \E ins \in {Fetched} :
          Dispatch("Divide", ins) /\ execute_code(ins, Divide_execute(ins, Top, heap))
GreaterEquals ==
    /\ Running
    /\ \E ins \in {Fetched} :
          Dispatch("GreaterEquals", ins) /\ execute_code(ins, GreaterEquals_execute(ins, Top, heap))
ConvertToInteger ==
    /\ Running
    /\ \E ins \in {Fetched} :
          Dispatch("ConvertToInteger", ins) /\ execute_code(ins, ConvertToInteger_execute(ins, Top, heap))
ConvertToDouble ==
    /\ Running
    /\ \E ins \in {Fetched} :
          Dispatch("ConvertToDouble", ins) /\ execute_code(ins, ConvertToDouble_execute(ins, Top, heap))
Dup ==
    /\ Running
    /\ \E ins \in {Fetched} :
          Dispatch("Dup", ins) /\ execute_code(ins, Dup_execute(ins, Top, heap))
Pop ==
    /\ Running
    /\ \E ins \in {Fetched} :
          Dispatch("Pop", ins) /\ execute_code(ins, Pop_execute(ins, Top, heap))
PopScope ==
    /\ Running
    /\ \E ins \in {Fetched} :
          Dispatch("PopScope", ins) /\ execute_code(ins, PopScope_execute(ins, Top, heap))
PushScope ==
    /\ Running
    /\ \E ins \in {Fetched} :
          Dispatch("PushScope", ins) /\ execute_code(ins, PushScope_execute(ins, Top, heap))
PushByte ==
    /\ Running
    /\ \E ins \in {Fetched} :
          Dispatch("PushByte", ins) /\ execute_code(ins, PushByte_execute(ins, Top, heap))
PushTrue ==
    /\ Running
    /\ \E ins \in {Fetched} :
          Dispatch("PushTrue", ins) /\ execute_code(ins, PushTrue_execute(ins, Top, heap))
PushFalse ==
    /\ Running
    /\ \E ins \in {Fetched} :
          Dispatch("PushFalse", ins) /\ execute_code(ins, PushFalse_execute(ins, Top, heap))
PushNull ==
    /\ Running
    /\ \E ins \in {Fetched} :
          Dispatch("PushNull", ins) /\ execute_code(ins, PushNull_execute(ins, Top, heap))
PushDouble ==
    /\ Running
    /\ \E ins \in {Fetched} :
          Dispatch("PushDouble", ins) /\ execute_code(ins, PushDouble_execute(ins, Top, heap))
PushInteger ==
    /\ Running
    /\ \E ins \in {Fetched} :
          Dispatch("PushInteger", ins) /\ execute_code(ins, PushInteger_execute(ins, Top, heap))
PushString ==
    /\ Running
    /\ \E ins \in {Fetched} :
          Dispatch("PushString", ins) /\ execute_code(ins, PushString_execute(ins, Top, heap))
GetLocal0 ==
    /\ Running
    /\ \E ins \in {Fetched} :
          Dispatch("GetLocal0", ins) /\ execute_code(ins, GetLocal0_execute(ins, Top, heap))
GetLocal1 ==
    /\ Running
    /\ \E ins \in {Fetched} :
          Dispatch("GetLocal1", ins) /\ execute_code(ins, GetLocal1_execute(ins, Top, heap))
GetLocal2 ==
    /\ Running
    /\ \E ins \in {Fetched} :
          Dispatch("GetLocal2", ins) /\ execute_code(ins, GetLocal2_execute(ins, Top, heap))
GetLocal3 ==
    /\ Running
    /\ \E ins \in {Fetched} :
          Dispatch("GetLocal3", ins) /\ execute_code(ins, GetLocal3_execute(ins, Top, heap))
SetLocal0 ==
    /\ Running
    /\ \E ins \in {Fetched} :
          Dispatch("SetLocal0", ins) /\ execute_code(ins, SetLocal0_execute(ins, Top, heap))
SetLocal1 ==
    /\ Running
    /\ \E ins \in {Fetched} :
          Dispatch("SetLocal1", ins) /\ execute_code(ins, SetLocal1_execute(ins, Top, heap))
SetLocal2 ==
    /\ Running
    /\ \E ins \in {Fetched} :
          Dispatch("SetLocal2", ins) /\ execute_code(ins, SetLocal2_execute(ins, Top, heap))
SetLocal3 ==
    /\ Running
    /\ \E ins \in {Fetched} :
          Dispatch("SetLocal3", ins) /\ execute_code(ins, SetLocal3_execute(ins, Top, heap))
Kill ==
    /\ Running
    /\ \E ins \in {Fetched} :
          Dispatch("Kill", ins) /\ execute_code(ins, Kill_execute(ins, Top, heap))
GetScopeObject ==
    /\ Running
    /\ \E ins \in {Fetched} :
          Dispatch("GetScopeObject", ins) /\ execute_code(ins, GetScopeObject_execute(ins, Top, heap))
ReturnValue ==
    /\ Running
    /\ \E ins \in {Fetched} :
          Dispatch("ReturnValue", ins) /\ execute_code(ins, ReturnValue_execute(ins, Top, heap))
ReturnVoid ==
    /\ Running
    /\ \E ins \in {Fetched} :
          Dispatch("ReturnVoid", ins) /\ execute_code(ins, ReturnVoid_execute(ins, Top, heap))
IfFalse ==
    /\ Running
    /\ \E ins \in {Fetched} :
          Dispatch("IfFalse", ins) /\ execute_code(ins, IfFalse_execute(ins, Top, heap))
IfLT ==
    /\ Running
    /\ \E ins \in {Fetched} :
          Dispatch("IfLT", ins) /\ execute_code(ins, IfLT_execute(ins, Top, heap))
IfNGT ==
    /\ Running
    /\ \E ins \in {Fetched} :
          Dispatch("IfNGT", ins) /\ execute_code(ins, IfNGT_execute(ins, Top, heap))
IfNLT ==
    /\ Running
    /\ \E ins \in {Fetched} :
          Dispatch("IfNLT", ins) /\ execute_code(ins, IfNLT_execute(ins, Top, heap))
FindProperty ==
    /\ Running
    /\ \E ins \in {Fetched} :
          Dispatch("FindProperty", ins) /\ execute_code(ins, FindProperty_execute(ins, Top, heap))
FindPropStrict ==
    /\ Running
    /\ \E ins \in {Fetched} :
          Dispatch("FindPropStrict", ins) /\ execute_code(ins, FindPropStrict_execute(ins, Top, heap))
GetLex ==
    /\ Running
    /\ \E ins \in {Fetched} :
          Dispatch("GetLex", ins) /\ execute_code(ins, GetLex_execute(ins, Top, heap))
GetProperty ==
    /\ Running
    /\ \E ins \in {Fetched} :
          Dispatch("GetProperty", ins) /\ execute_code(ins, GetProperty_execute(ins, Top, heap))
InitProperty ==
    /\ Running
    /\ \E ins \in {Fetched} :
          Dispatch("InitProperty", ins) /\ execute_code(ins, InitProperty_execute(ins, Top, heap))
Construct ==
    /\ Running
    /\ \E ins \in {Fetched} :
          Dispatch("Construct", ins) /\ execute_code(ins, Construct_execute(ins, Top, heap))
ConstructSuper ==
    /\ Running
    /\ \E ins \in {Fetched} :
          Dispatch("ConstructSuper", ins) /\ execute_code(ins, ConstructSuper_execute(ins, Top, heap))
Call ==
    /\ Running
    /\ \E ins \in {Fetched}, result \in HostResults :
          Dispatch("Call", ins) /\ execute_code(ins, Call_execute(ins, Top, heap, result))
CallProperty ==
    /\ Running
    /\ \E ins \in {Fetched}, result \in HostResults :
          /\ Dispatch("CallProperty", ins)
          /\ execute_code(ins, CallProperty_execute(ins, Top, heap, result))

\* NewClass.execute.  The result: the exception, or the caller's environment
\* with the class-object pushed and the environment call_method starts
NewClassRaises(exc, cache, h, note) ==
    [exc |-> exc, cache |-> cache, heap |-> h, env |-> Null, callee |-> Null, note |-> note,
     invoked |-> <<>>]

NewClass_entered(index, class_object, cache, h, env, e, note) ==
    IF e.exc # "" THEN NewClassRaises(e.exc, cache, h, note)
    ELSE [exc |-> "", cache |-> cache, heap |-> h, env |-> Push(Drop(env, 1), class_object),
          callee |-> e.v, note |-> note,
          invoked |-> <<Invocation(index, class_object, <<>>, Null)>>]

\* operand_stack.append(class_object); machine.call_method(init_index, class_object)
NewClass_call(index, class_object, cache, h, env, note) ==
    IF ~InRange(abc.classes, index) THEN NewClassRaises("IndexError", cache, h, note)
    ELSE IF Len(frames) >= MaxDepth THEN NewClassRaises("RecursionError", cache, h, note)
    ELSE NewClass_entered(At(abc.classes, index).init_index, class_object, cache, h, env,
                          call_method(At(abc.classes, index).init_index, class_object), note)

NewClass_allocated(index, class_object, cache, h, env, traits) ==
    IF traits.exc # "" THEN NewClassRaises(traits.exc, cache, h, "allocated")
    ELSE NewClass_call(index, class_object, cache, traits.v, env, "allocated")

\* class_object = ASObject(); base_type; the cache entry; the CONST traits
NewClass_allocate(index, class_object, cache, h, env) ==
    IF ~InRange(abc.classes, index) THEN NewClassRaises("IndexError", cache, h, "allocated")
    ELSE NewClass_allocated(index, class_object, cache, h, env,
                            allocate_traits(h, class_object, At(abc.classes, index).traits))

\* a newclass that makes a class-object whether or not one is cached
NewClass_execute_uncached(self, env, h, cache) ==
    IF Depth(env) < 1 THEN NewClassRaises("IndexError", cache, h, "")
    ELSE NewClass_allocate(self.args[1], Ref(Len(h) + 1),
                           (self.args[1] :> (Len(h) + 1)) @@ cache,
                           Append(h, [ASObject EXCEPT !.base_type = Peek(env, 0)]), env)

NewClass_execute(self, env, h, cache) ==
    IF Depth(env) < 1 THEN NewClassRaises("IndexError", cache, h, "")
    ELSE IF self.args[1] \in DOMAIN cache
    THEN NewClass_call(self.args[1], Ref(cache[self.args[1]]), cache, h, env, "cached")
    ELSE NewClass_allocate(self.args[1], Ref(Len(h) + 1),
                           (self.args[1] :> (Len(h) + 1)) @@ cache,
                           Append(h, [ASObject EXCEPT !.base_type = Peek(env, 0)]), env)

\* the handler is inside call_method: the initializer runs in its own
\* execute_code, on top of the caller's
invoke(ins, r) ==
    /\ IF r.exc = ""
       THEN /\ frames' = Append([frames EXCEPT ![Len(frames)] =
                                     [r.env EXCEPT !.position = ins.pos]], r.callee)
            /\ outcome' = outcome
       ELSE Propagate(r.exc, Null)
    /\ heap' = r.heap
    /\ class_objects' = r.cache
    /\ last' = [Dispatched(ins, FALSE, r.note) EXCEPT !.invoked = r.invoked]
    /\ UNCHANGED abc

NewClass ==
    /\ Running
    /\ \E ins \in {Fetched} :
          /\ Dispatch("NewClass", ins)
          /\ invoke(ins, NewClass_execute(ins, Top, heap, class_objects))

Next ==
    \/ execute_method
    \/ execute_entry_point
    \/ DecodeError
    \/ NotImplemented
    \/ Add \/ AddInteger \/ SubtractInteger \/ Divide \/ GreaterEquals
    \/ ConvertToInteger \/ ConvertToDouble
    \/ Dup \/ Pop \/ PopScope \/ PushScope
    \/ PushByte \/ PushTrue \/ PushFalse \/ PushNull \/ PushDouble \/ PushInteger
    \/ PushString
    \/ GetLocal0 \/ GetLocal1 \/ GetLocal2 \/ GetLocal3
    \/ SetLocal0 \/ SetLocal1 \/ SetLocal2 \/ SetLocal3
    \/ Kill \/ GetScopeObject
    \/ ReturnValue \/ ReturnVoid
    \/ IfFalse \/ IfLT \/ IfNGT \/ IfNLT
    \/ FindProperty \/ FindPropStrict \/ GetLex \/ GetProperty \/ InitProperty
    \/ Construct \/ ConstructSuper \/ Call \/ CallProperty
    \/ NewClass

Spec == Init /\ [][Next]_vars


-----------------------------------------------------------------------------
(* The values the reader and the decoder return, and                       *)
(* ASConstantPool(reader): the seven pools, read in order.                 *)

\* bytes, as the memoryview a read returns
Slice(bytes) == [t |-> "bytes", v |-> bytes]
\* the float unpacked from eight bytes, named by them
D64(bytes) == [t |-> "d64", v |-> bytes]
\* the str decoded from bytes, as its code points
Str(points) == [t |-> "str", v |-> points]

\* a decoder's result, with the value wrapped
Wrapped(r, wrap) ==
    IF ~r.ok THEN r
    ELSE [r EXCEPT !.v = CASE wrap = "int" -> r.v
                           [] wrap = "bytes" -> Slice(r.v)
                           [] wrap = "d64" -> D64(r.v)
                           [] wrap = "str" -> Str(r.v)]

\* an Optional field that holds None
Absent == -1

\* read_int(unsigned=False): the sign comes from bit 6 of the last byte read
read_int_signed(buffer, position) ==
    whole(read_int_parts(buffer, position, FALSE))

\* parser.read_string: a length, then that many bytes of UTF-8
parser_read_string(buffer, position) ==
    LET n == read_int(buffer, position) IN
    IF ~n.ok THEN n ELSE decode_utf8(read(buffer, n.pos, n.v))

\* ASNamespace(reader)
ASNamespace(buffer, position) ==
    LET kind == read_u8(buffer, position) IN
    IF ~kind.ok THEN kind
    ELSE LET name_index == read_int(buffer, kind.pos) IN
         IF ~name_index.ok THEN name_index
         ELSE Ok([kind |-> kind.v, name_index |-> name_index.v], name_index.pos)

\* parser.read_array(reader, read_int, n): n integers
RECURSIVE read_ints(_, _, _, _)
read_ints(buffer, position, n, got) ==
    IF n = 0 THEN Ok(got, position)
    ELSE LET f == read_int(buffer, position) IN
         IF ~f.ok THEN f ELSE read_ints(buffer, f.pos, n - 1, Append(got, f.v))

\* parser.read_array(reader, read_int): a count, then that many integers
read_array_int(buffer, position) ==
    LET n == read_int(buffer, position) IN
    IF ~n.ok THEN n ELSE read_ints(buffer, n.pos, n.v, <<>>)

\* ASNamespaceSet(reader)
ASNamespaceSet(buffer, position) == read_array_int(buffer, position)

\* MultinameKind and the fields ASMultiname.__init__ reads for each kind
Q_NAME == 7
MultinameFields == (7 :> <<"namespace_index", "name_index">>)
    @@ (13 :> <<"namespace_index", "name_index">>)
    @@ (15 :> <<"name_index">>) @@ (16 :> <<"name_index">>)
    @@ (17 :> <<>>) @@ (18 :> <<>>)
    @@ (9 :> <<"name_index", "namespace_set_index">>)
    @@ (14 :> <<"name_index", "namespace_set_index">>)
    @@ (27 :> <<"namespace_set_index">>) @@ (28 :> <<"namespace_set_index">>)
    @@ (29 :> <<"q_name_index">>)

\* the dataclass with its defaults; type_indices is None but for a TYPE_NAME
Multiname(kind) ==
    [kind |-> kind, namespace_index |-> Absent, name_index |-> Absent,
     namespace_set_index |-> Absent, q_name_index |-> Absent, type_indices |-> <<>>]

Assigned(m, field, v) ==
    CASE field = "namespace_index" -> [m EXCEPT !.namespace_index = v]
      [] field = "name_index" -> [m EXCEPT !.name_index = v]
      [] field = "namespace_set_index" -> [m EXCEPT !.namespace_set_index = v]
      [] field = "q_name_index" -> [m EXCEPT !.q_name_index = v]

RECURSIVE read_multiname_fields(_, _, _, _)
read_multiname_fields(fields, buffer, position, m) ==
    IF fields = <<>> THEN Ok(m, position)
    ELSE LET f == read_int(buffer, position) IN
         IF ~f.ok THEN f
         ELSE read_multiname_fields(Tail(fields), buffer, f.pos, Assigned(m, Head(fields), f.v))

read_type_indices(m, buffer) ==
    IF ~m.ok \/ m.v.kind # 29 THEN m
    ELSE LET t == read_array_int(buffer, m.pos) IN
         IF ~t.ok THEN t ELSE Ok([m.v EXCEPT !.type_indices = t.v], t.pos)

\* ASMultiname(reader); MultinameKind(byte) raises ValueError for a byte
\* that is no kind
ASMultiname(buffer, position) ==
    LET kind == read_u8(buffer, position) IN
    IF ~kind.ok THEN kind
    ELSE IF kind.v \notin DOMAIN MultinameFields THEN Fail("ValueError")
    ELSE read_type_indices(read_multiname_fields(MultinameFields[kind.v], buffer, kind.pos,
                                                 Multiname(kind.v)), buffer)

\* the read each pool is read with
read_entry(pool, buffer, position) ==
    CASE pool = "integers" -> read_int_signed(buffer, position)
      [] pool = "unsigned_integers" -> read_int(buffer, position)
      [] pool = "doubles" -> Wrapped(read_d64(buffer, position), "d64")
      [] pool = "strings" -> Wrapped(parser_read_string(buffer, position), "str")
      [] pool = "namespaces" -> ASNamespace(buffer, position)
      [] pool = "ns_sets" -> ASNamespaceSet(buffer, position)
      [] pool = "multinames" -> ASMultiname(buffer, position)

RECURSIVE read_entries(_, _, _, _, _)
read_entries(pool, buffer, position, n, got) ==
    IF n <= 0 THEN Ok(got, position)
    ELSE LET f == read_entry(pool, buffer, position) IN
         IF ~f.ok THEN f ELSE read_entries(pool, buffer, f.pos, n - 1, Append(got, f.v))

\* parser.read_array_with_default: a count n, the default at index 0, then
\* n - 1 entries; a count of 0 leaves the default alone
read_array_with_default(pool, default, buffer, position) ==
    LET n == read_int(buffer, position) IN
    IF ~n.ok THEN n ELSE read_entries(pool, buffer, n.pos, n.v - 1, <<default>>)

\* math.nan, and the None at index 0 of a pool of strings, namespaces, sets
\* or multinames
NaN == [t |-> "nan", v |-> <<>>]
NoEntry == [t |-> "None", v |-> <<>>]

PoolNames == <<"integers", "unsigned_integers", "doubles", "strings", "namespaces",
               "ns_sets", "multinames">>

\* a constant pool whose doubles start with 0.0
PoolDefault_zero(pool) ==
    CASE pool \in {"integers", "unsigned_integers"} -> 0
      [] pool = "doubles" -> D64(<<0, 0, 0, 0, 0, 0, 0, 0>>)
      [] OTHER -> NoEntry

\* the default ASConstantPool.__init__ passes for each pool
PoolDefault(pool) ==
    CASE pool \in {"integers", "unsigned_integers"} -> 0
      [] pool = "doubles" -> NaN
      [] OTHER -> NoEntry

RECURSIVE read_pools(_, _, _, _)
read_pools(pools, buffer, position, got) ==
    IF pools = <<>> THEN Ok(got, position)
    ELSE LET a == read_array_with_default(Head(pools), PoolDefault(Head(pools)),
                                          buffer, position) IN
         IF ~a.ok THEN a
         ELSE read_pools(Tail(pools), buffer, a.pos, Append(got, a.v))

\* ASConstantPool.__init__: the pools in the order of PoolNames
ASConstantPool_init(buffer, position) == read_pools(PoolNames, buffer, position, <<>>)

-----------------------------------------------------------------------------
(* Constant pools and the bytes that encode them.                          *)

\* the bytes read_int(unsigned=False) decodes to v, for -8192 <= v < 8192
encode_s32(v) ==
    IF -64 <= v /\ v < 64 THEN <<v % 128>>
    ELSE <<128 + (v % 128), (v \div 128) % 128>>

RECURSIVE encode_ints(_)
encode_ints(s) == IF s = <<>> THEN <<>> ELSE encode_u30(Head(s)) \o encode_ints(Tail(s))

encode_multiname(m) ==
    <<m.kind>>
        \o encode_ints(SelectSeq(<<m.namespace_index, m.name_index, m.namespace_set_index,
                                   m.q_name_index>>, LAMBDA i : i # Absent))
        \o (IF m.kind = 29 THEN encode_u30(Len(m.type_indices)) \o encode_ints(m.type_indices)
            ELSE <<>>)

encode_entry(pool, e) ==
    CASE pool = "integers" -> encode_s32(e)
      [] pool = "unsigned_integers" -> encode_u30(e)
      [] pool = "doubles" -> e.v
      [] pool = "strings" -> encode_u30(Len(e.v)) \o e.v
      [] pool = "namespaces" -> <<e.kind>> \o encode_u30(e.name_index)
      [] pool = "ns_sets" -> encode_u30(Len(e)) \o encode_ints(e)
      [] pool = "multinames" -> encode_multiname(e)

RECURSIVE encode_entries(_, _)
encode_entries(pool, s) ==
    IF s = <<>> THEN <<>> ELSE encode_entry(pool, Head(s)) \o encode_entries(pool, Tail(s))

\* a pool of k entries has the count k + 1; a pool without entries has the
\* count 0 or the count 1
encode_pool(pool, s, zero) ==
    (IF s = <<>> /\ zero THEN <<0>> ELSE encode_u30(Len(s) + 1)) \o encode_entries(pool, s)

RECURSIVE encode_pools(_, _, _)
encode_pools(pools, d, zero) ==
    IF pools = <<>> THEN <<>>
    ELSE encode_pool(Head(pools), d[Head(pools)], zero) \o encode_pools(Tail(pools), d, zero)

\* the entries a pool is given: none, or these
PoolEntries == [
    integers |-> <<5, -1, 200>>,
    unsigned_integers |-> <<200>>,
    doubles |-> <<D64(<<0, 0, 0, 0, 0, 0, 4, 64>>)>>,
    strings |-> <<Str(<<>>), Str(<<120>>)>>,
    namespaces |-> <<[kind |-> 22, name_index |-> 1]>>,
    ns_sets |-> <<<<1>>, <<>>>>,
    multinames |-> <<[Multiname(Q_NAME) EXCEPT !.namespace_index = 1, !.name_index = 2],
                     Multiname(17),
                     [Multiname(29) EXCEPT !.q_name_index = 1, !.type_indices = <<1, 1>>]>>]

PoolDescriptions ==
    {[p \in DOMAIN PoolEntries |-> IF p \in full THEN PoolEntries[p] ELSE <<>>] :
        full \in SUBSET (DOMAIN PoolEntries)}

\* the encodings, and each of them without its last byte
PoolBuffers ==
    {encode_pools(PoolNames, d, zero) : d \in PoolDescriptions, zero \in BOOLEAN}
        \cup {SubSeq(encode_pools(PoolNames, d, FALSE), 1,
                     Len(encode_pools(PoolNames, d, FALSE)) - 1) : d \in PoolDescriptions}

DecoderInit ==
    /\ abc \in PoolBuffers
    /\ frames = <<>>
    /\ heap = InitialHeap
    /\ class_objects = [c \in {} |-> 0]
    /\ outcome = Idle
    /\ last = NoInstruction

\* ASConstantPool(MemoryViewReader(buffer))
ASConstantPool ==
    /\ outcome.kind = "idle"
    /\ \E r \in {ASConstantPool_init(abc, 0)} :
          /\ last' = [NoInstruction EXCEPT !.name = "ASConstantPool", !.completed = r.ok,
                                           !.position = r.pos]
          /\ outcome' = IF r.ok
                        THEN [kind |-> "returned", exc |-> "",
                              value |-> [t |-> "ASConstantPool", v |-> r.v]]
                        ELSE [kind |-> "raised", exc |-> r.exc, value |-> Null]
    /\ UNCHANGED <<abc, frames, heap, class_objects>>

SpecDecoder == DecoderInit /\ [][ASConstantPool]_vars

-----------------------------------------------------------------------------
(* MemoryViewReader on its own: abc holds the bytes the reader is made     *)
(* over, last the call made last and the position it left, outcome what    *)
(* the call returned or raised.                                            *)

\* the length of the buffers that are enumerated in full
MaxBuffer == 4

\* a terminator, an ASCII letter, and a byte with the high bit set
ByteValues == {0, 65, 129}

\* eight bytes and more, for the reads of a double
LongBuffers == {<<65, 0, 0, 0, 0, 0, 0, 0>>, <<0, 65, 65, 65, 65, 65, 65, 65, 65>>,
                <<129, 129, 129, 129, 1, 0, 0, 0, 65>>}

\* variable-length integers of one to six bytes: the five-byte encoding
\* of 2^32 - 1, five bytes that all continue, fifth bytes with bits
\* above bit 31, and groups with bit 6 set
VarInts == {<<255, 255, 255, 255, 15>>, <<255, 255, 255, 255, 255, 65>>,
            <<128, 128, 128, 128, 127, 0>>, <<128, 128, 128, 128, 72>>,
            <<128, 128, 128, 128, 248>>, <<255, 255, 255, 255, 7>>,
            <<255, 127, 65>>, <<249, 255, 127>>, <<192, 196, 7>>, <<128, 128, 128, 64>>, <<229, 142, 38, 0>>}

\* three-byte offsets at the edges of the signed 24-bit range
Offsets == {<<255, 255, 127>>, <<0, 0, 128>>, <<255, 255, 255>>, <<1, 0, 0, 65>>}

\* every value of a first byte
OneByte == {<<b>> : b \in 0..255}

Buffers ==
    UNION {[1..n -> ByteValues] : n \in 0..MaxBuffer} \cup LongBuffers \cup VarInts \cup Offsets
        \cup OneByte

\* the sizes read(size) is asked for
ReadSizes == {0, 1, 2, 3}

\* the sizes skip(size) is asked for, and how far past the end of the
\* buffer skip is followed
SkipSizes == {0, 1, 2}
MaxPast == 2

\* the int of the parts hi and lo: within 32 bits it is the integer
\* itself, outside it is kept in its parts
PyInt(hi, lo) ==
    IF -8 <= hi /\ hi < 8 THEN IntV(hi * GroupBase + lo)
    ELSE [t |-> IF hi > 0 THEN "int above" ELSE "int below", v |-> lo, hi |-> hi]


\* MemoryViewReader(buffer)
ReaderInit ==
    /\ abc \in Buffers
    /\ frames = <<>>
    /\ heap = InitialHeap
    /\ class_objects = [c \in {} |-> 0]
    /\ outcome = Idle
    /\ last = NoInstruction

\* one call of a reader method at the position the reader is at
ReaderCall(name, args, r, wrap) ==
    /\ outcome.kind # "raised"
    /\ last' = [NoInstruction EXCEPT
                    !.name = name, !.args = args, !.before = last.position,
                    !.position = r.pos,
                    !.completed = r.ok]
    /\ outcome' = IF r.ok
                  THEN [kind |-> "returned", exc |-> "",
                        value |-> CASE wrap = "int" -> IntV(r.v)
                                    [] wrap = "parts" -> PyInt(r.v.hi, r.v.lo)
                                    [] wrap = "None" -> Null
                                    [] OTHER -> Wrapped(r, wrap).v]
                  ELSE [kind |-> "raised", exc |-> r.exc, value |-> Null]
    /\ UNCHANGED <<abc, frames, heap, class_objects>>

MemoryViewReader_read ==
    \E size \in ReadSizes : ReaderCall("read", <<size>>, read(abc, last.position, size), "bytes")

MemoryViewReader_read_u8 == ReaderCall("read_u8", <<>>, read_u8(abc, last.position), "int")

MemoryViewReader_read_u16 == ReaderCall("read_u16", <<>>, read_u16(abc, last.position), "int")

\* the value of four bytes is kept within the model's integers
MemoryViewReader_read_u32 ==
    /\ last.position + 4 <= Len(abc) => abc[last.position + 4] < 128
    /\ ReaderCall("read_u32", <<>>, read_u32(abc, last.position), "int")

MemoryViewReader_read_d64 == ReaderCall("read_d64", <<>>, read_d64(abc, last.position), "d64")

MemoryViewReader_read_s24 == ReaderCall("read_s24", <<>>, read_s24(abc, last.position), "int")

MemoryViewReader_read_int ==
    \E unsigned \in BOOLEAN :
       ReaderCall("read_int", <<BoolV(unsigned)>>,
                  read_int_parts(abc, last.position, unsigned), "parts")

MemoryViewReader_read_all == ReaderCall("read_all", <<>>, read_all(abc, last.position), "bytes")

MemoryViewReader_skip ==
    \E size \in SkipSizes :
       /\ last.position + size <= Len(abc) + MaxPast
       /\ ReaderCall("skip", <<size>>, skip(abc, last.position, size), "int")

MemoryViewReader_skip_rect ==
    ReaderCall("skip_rect", <<>>, skip_rect(abc, last.position), "None")

MemoryViewReader_read_until ==
    ReaderCall("read_until", <<0>>, read_until(abc, last.position, 0), "bytes")

MemoryViewReader_read_string ==
    ReaderCall("read_string", <<>>, read_string(abc, last.position), "str")

\* swf.parser.skip_rect on a stream of the same bytes at the same position
swf_parser_skip_rect ==
    ReaderCall("parser.skip_rect", <<>>, parser_skip_rect(abc, last.position), "None")

ReaderNext ==
    \/ MemoryViewReader_read
    \/ MemoryViewReader_read_u8
    \/ MemoryViewReader_read_u16
    \/ MemoryViewReader_read_u32
    \/ MemoryViewReader_read_d64
    \/ MemoryViewReader_read_s24
    \/ MemoryViewReader_read_int
    \/ MemoryViewReader_read_until
    \/ MemoryViewReader_read_string
    \/ MemoryViewReader_read_all
    \/ MemoryViewReader_skip
    \/ MemoryViewReader_skip_rect
    \/ swf_parser_skip_rect

SpecReader == ReaderInit /\ [][ReaderNext]_vars

-----------------------------------------------------------------------------
(* Linking of class names: VirtualMachine.__init__, lookup_class, and      *)
(* ASMultiname.qualified_name. A str is the sequence of its characters.    *)

\* None, as an f-string renders it
NoneText == <<"N", "o", "n", "e">>

\* the strings: index 1 is the empty string, 2 a package name
LinkStrings == <<NoneText, <<>>, <<"f", "l">>, <<"X">>, <<"Y">>, <<"Z">>>>

\* the namespaces: the package named by the empty string, the package
\* whose name index is 0, the package "fl"
LinkNamespaces == <<NoEntry, [kind |-> 22, name |-> 1], [kind |-> 22, name |-> 0],
                    [kind |-> 22, name |-> 2]>>

\* the multinames: a Q_NAME for each namespace and each of the names X, Y, Z
LinkMultinames ==
    <<NoEntry>> \o [i \in 1..9 |-> [kind |-> Q_NAME, ns |-> ((i - 1) \div 3) + 1,
                                    name |-> ((i - 1) % 3) + 3]]

\* a file with the instances named by the given multinames
LinkFile(names) ==
    [constant_pool |-> [strings |-> LinkStrings, namespaces |-> LinkNamespaces,
                        multinames |-> LinkMultinames],
     instances |-> [i \in DOMAIN names |-> [name |-> names[i]]]]

\* one instance, or two of different names
LinkFiles ==
    {LinkFile(<<m>>) : m \in 1..9}
        \cup {LinkFile(<<p[1], p[2]>>) : p \in {q \in (1..9) \X (1..9) : q[1] # q[2]}}

\* str.strip('.')
RECURSIVE lstrip(_)
lstrip(s) == IF s # <<>> /\ Head(s) = "." THEN lstrip(Tail(s)) ELSE s
RECURSIVE rstrip(_)
rstrip(s) == IF s # <<>> /\ s[Len(s)] = "." THEN rstrip(SubSeq(s, 1, Len(s) - 1)) ELSE s
strip(s) == rstrip(lstrip(s))

\* ASMultiname.qualified_name(constant_pool)
qualified_name(multiname, pool) ==
    IF multiname.kind # Q_NAME \/ multiname.ns = 0 \/ multiname.name = 0
    THEN Error("AssertionError")
    ELSE IF ~InRange(pool.namespaces, multiname.ns) THEN Error("IndexError")
    ELSE Value(strip(At(pool.strings, At(pool.namespaces, multiname.ns).name)
                     \o <<".">> \o At(pool.strings, multiname.name)))

\* the pair link_class_names yields for one instance, or the assertion
\* that fails
class_name(instance, pool) ==
    IF instance.name = 0 THEN Error("AssertionError")
    ELSE LET multiname == At(pool.multinames, instance.name) IN
         IF multiname.kind # Q_NAME \/ multiname.ns = 0 THEN Error("AssertionError")
         ELSE IF At(pool.namespaces, multiname.ns).name = 0 \/ multiname.name = 0
         THEN Error("AssertionError")
         ELSE Value(At(pool.strings, At(pool.namespaces, multiname.ns).name)
                    \o <<".">> \o At(pool.strings, multiname.name))

\* dict(self.link_class_names()): the pairs in order, a later pair replacing
\* an earlier one of the same name
RECURSIVE link_class_names(_, _, _, _)
link_class_names(instances, index, pool, linked) ==
    IF index >= Len(instances) THEN Value(linked)
    ELSE LET pair == class_name(At(instances, index), pool) IN
         IF pair.exc # "" THEN pair
         ELSE link_class_names(instances, index + 1, pool,
                               (pair.v :> index) @@ [k \in DOMAIN linked \ {pair.v} |-> linked[k]])

name_to_class == link_class_names(abc.instances, 0, abc.constant_pool, [k \in {} |-> 0])

LinkerInit ==
    /\ abc \in LinkFiles
    /\ frames = <<>>
    /\ heap = InitialHeap
    /\ class_objects = [c \in {} |-> 0]
    /\ outcome = Idle
    /\ last = NoInstruction

\* VirtualMachine(abc_file): the constructor links the class names
VirtualMachine_init ==
    /\ outcome.kind = "idle"
    /\ last' = [NoInstruction EXCEPT !.name = "VirtualMachine", !.completed = name_to_class.exc = ""]
    /\ outcome' = IF name_to_class.exc = ""
                  THEN [kind |-> "linked", exc |-> "", value |-> Null]
                  ELSE [kind |-> "raised", exc |-> name_to_class.exc, value |-> Null]
    /\ UNCHANGED <<abc, frames, heap, class_objects>>

\* lookup_class(key) on the machine that was constructed
lookup(key) ==
    IF key \in DOMAIN name_to_class.v
    THEN [kind |-> "returned", exc |-> "", value |-> IntV(name_to_class.v[key])]
    ELSE [kind |-> "raised", exc |-> "KeyError", value |-> Null]

\* lookup_class with the qualified name of the multiname that names
\* instance i
lookup_class ==
    /\ outcome.kind \in {"linked", "returned"}
    /\ \E i \in 0..(Len(abc.instances) - 1) :
          \E q \in {qualified_name(At(abc.constant_pool.multinames, At(abc.instances, i).name),
                                   abc.constant_pool)} :
             /\ q.exc = ""
             /\ last' = [NoInstruction EXCEPT !.name = "lookup_class", !.args = <<i>>,
                                              !.invoked = <<q.v>>]
             /\ outcome' = lookup(q.v)
    /\ UNCHANGED <<abc, frames, heap, class_objects>>

SpecLinker == LinkerInit /\ [][VirtualMachine_init \/ lookup_class]_vars

-----------------------------------------------------------------------------
(* runtime.py on its own: the host reads properties of the objects of a    *)
(* heap. A name is an int or a str, a str value the sequence of its        *)
(* characters.                                                             *)

\* ASArray(value): ASObject.__init__ gives the instance its own properties
ASArray(value) ==
    [cls |-> "ASArray", properties |-> EmptyProperties, value |-> value, base_type |-> Null]
\* ASArray.properties, the class-level dict
ASArray_properties == EmptyProperties

\* isinstance(name, int) and 0 <= name < len(self.value)
IsIndex(name, value) == name.t = "int" /\ 0 <= name.v /\ name.v < Len(value)

\* a dict of properties read at [namespace, name]; the keys are named by str
subscript(properties, namespace, name) ==
    IF name.t = "str" /\ <<namespace, name.v>> \in DOMAIN properties
    THEN Value(properties[<<namespace, name.v>>]) ELSE Error("KeyError")

\* ASObject.get_property
ASObject_get_property(h, x, namespace, name) ==
    subscript(h[x.v].properties, namespace, name)

\* ASString.get_property: self.value[name] is a str of one character
ASString_get_property(h, x, namespace, name) ==
    IF IsIndex(name, h[x.v].value) THEN Value(Str(<<h[x.v].value[name.v + 1]>>))
    ELSE subscript(ASString_properties, namespace, name)

\* ASArray.get_property: out of range it is super().get_property
ASArray_get_property(h, x, namespace, name) ==
    IF IsIndex(name, h[x.v].value) THEN Value(h[x.v].value[name.v + 1])
    ELSE ASObject_get_property(h, x, namespace, name)

\* the objects the host holds: an array, a string, an object with a property
ArrayValues == {<<>>, <<IntV(10)>>, <<IntV(10), undefined>>, <<Null, IntV(10), BoolV(TRUE)>>}
StringValues == {<<>>, <<"a">>, <<"a", "b">>}
ArrayId == 2
StringId == 3
ObjectId == 4
RuntimeHeaps ==
    {<<ASUndefined, ASArray(a), [ASString(s) EXCEPT !.properties = (<<"", "y">> :> IntV(1))],
       [ASObject EXCEPT !.properties = (<<"", "y">> :> IntV(7))]>> :
        a \in ArrayValues, s \in StringValues}

\* the names asked for
PropertyNames == {IntV(n) : n \in -1..3} \cup {Str("y"), Str("length")}

RuntimeInit ==
    /\ abc = <<>>
    /\ frames = <<>>
    /\ heap \in RuntimeHeaps
    /\ class_objects = [c \in {} |-> 0]
    /\ outcome = Idle
    /\ last = NoInstruction

\* object.get_property('', name), called by the host
PropertyCall(method, x, name, r) ==
    /\ last' = [NoInstruction EXCEPT !.name = method, !.args = <<Ref(x), name>>,
                                     !.completed = r.exc = ""]
    /\ outcome' = IF r.exc = "" THEN [kind |-> "returned", exc |-> "", value |-> r.v]
                  ELSE [kind |-> "raised", exc |-> r.exc, value |-> Null]
    /\ UNCHANGED <<abc, frames, heap, class_objects>>

ASArray_get ==
    \E name \in PropertyNames :
       PropertyCall("ASArray.get_property", ArrayId, name,
                    ASArray_get_property(heap, Ref(ArrayId), "", name))

ASString_get ==
    \E name \in PropertyNames :
       PropertyCall("ASString.get_property", StringId, name,
                    ASString_get_property(heap, Ref(StringId), "", name))

ASObject_get ==
    \E name \in PropertyNames :
       PropertyCall("ASObject.get_property", ObjectId, name,
                    ASObject_get_property(heap, Ref(ObjectId), "", name))

RuntimeNext == ASArray_get \/ ASString_get \/ ASObject_get

SpecRuntime == RuntimeInit /\ [][RuntimeNext]_vars
-----------------------------------------------------------------------------
(* The properties.                                                         *)

\* the method the host calls has this code
MainIs(instructions) == At(abc.method_bodies, 0).code = Asm(instructions)

\* C1: when returnvalue or returnvoid executes in an invocation at any depth,
\* only that invocation ends: the frames of its callers stay, and the return
\* signal does not leave execute_method as an exception
C1_ReturnEndsOneInvocation ==
    (last.name \in {"ReturnValue", "ReturnVoid"} /\ outcome.exc # "IndexError") =>
        /\ outcome.exc # "ASReturnException"
        /\ Len(frames) = last.depth - 1

\* C2: for all bytes a and b, the body pushbyte a; pushbyte b; add; returnvalue
\* run through execute_method hands a + b back to the caller
C2_ArithmeticYieldsSum ==
    \A a \in Bytes, b \in Bytes :
        (MainIs(Arith(a, b)) /\ last.name = "ReturnValue") =>
            outcome = [kind |-> "returned", exc |-> "", value |-> IntV(a + b)]

\* C3: iflt pops both operands; when value1 < value2 the loop goes on at the
\* position after the 3-byte offset plus the offset, otherwise at the
\* position after the offset
C3_IfLTBranches ==
    (last.name = "IfLT" /\ last.note \in {"taken", "not taken"}) =>
        /\ Running
        /\ Len(frames) = last.depth
        /\ Depth(Top) = last.before - 2
        /\ Top.position = last.position + 4 + (IF last.note = "taken" THEN last.args[1] ELSE 0)

\* the value a pusher of scenario 6 leaves on the stack
Pushed(push, env) ==
    CASE push.name = "PushByte" -> IntV(push.args[1])
      [] push.name = "PushTrue" -> BoolV(TRUE)
      [] push.name = "PushNull" -> Null
      [] push.name = "GetLocal1" -> At(env.registers, 1)

\* C4: in getlocal_0; pushstring "x"; push v; initproperty "::x"; getlocal_0;
\* getproperty "::x"; returnvalue the property is stored on the object of
\* register 0 and the getproperty reads v back
C4_InitThenGetReadsBack ==
    \A p \in ValuePushers :
        (MainIs(PropertyInitGet(p)) /\ last.name = "GetProperty" /\ last.completed) =>
            /\ HasProperty(heap, At(Top.registers, 0), "", "x")
            /\ Peek(Top, 0) = Pushed(p, Top)

\* the static stack delta of an instruction
Delta(name, args) ==
    CASE name \in {"PushByte", "PushTrue", "PushFalse", "PushNull", "PushDouble",
                   "PushInteger", "PushString", "GetLocal0", "GetLocal1", "GetLocal2",
                   "GetLocal3", "Dup", "FindProperty", "GetScopeObject"} -> 1
      [] name \in {"Pop", "SetLocal0", "SetLocal1", "SetLocal2", "SetLocal3", "PushScope",
                   "Add", "AddInteger", "SubtractInteger", "Divide", "GreaterEquals"} -> -1
      [] name \in {"ConvertToInteger", "ConvertToDouble", "NewClass", "GetProperty"} -> 0
      [] name = "InitProperty" -> -2
      [] name \in {"Call", "ConstructSuper"} -> -(args[1] + 1)
      [] name = "Construct" -> -args[1]

HasDelta == {"PushByte", "PushTrue", "PushFalse", "PushNull", "PushDouble", "PushInteger",
             "PushString", "GetLocal0", "GetLocal1", "GetLocal2", "GetLocal3", "Dup",
             "FindProperty", "GetScopeObject", "Pop", "SetLocal0", "SetLocal1", "SetLocal2",
             "SetLocal3", "PushScope", "Add", "AddInteger", "SubtractInteger", "Divide",
             "GreaterEquals", "ConvertToInteger", "ConvertToDouble", "NewClass",
             "GetProperty", "InitProperty", "Call", "ConstructSuper", "Construct"}

C6_StacksBounded ==
    \A i \in DOMAIN frames :
        /\ Depth(frames[i]) <= At(abc.method_bodies, frames[i].body).max_stack
        /\ Len(frames[i].scope_stack) <= At(abc.method_bodies, frames[i].body).max_scope_depth

\* C7: register 0 of a live invocation is never undefined and never the
\* placeholder of an unset register
C7_RegisterZeroDefined ==
    \A i \in DOMAIN frames : At(frames[i].registers, 0) \notin {undefined, Ellipsis}

\* the entries of the exception table of the body whose range holds ip
Covering(body, ip) ==
    {e \in {At(abc.method_bodies, body).exceptions[i] :
                i \in DOMAIN At(abc.method_bodies, body).exceptions} :
        e.from_ <= ip /\ ip < e.to}

\* C8: after a throw in the method the host calls, the loop is at the target
\* of an entry whose range holds the throw, with only the thrown value on the
\* operand stack and no scope; with no such entry the invocation ends with
\* the thrown value propagating
C8_ThrowIsHandled ==
    (last.name = "Throw" /\ last.depth = 1 /\ last.before >= 1) =>
        IF Covering(0, last.position) # {}
        THEN /\ Running
             /\ \E e \in Covering(0, last.position) : Top.position = e.target
             /\ Depth(Top) = 1
             /\ Top.scope_stack = <<>>
        ELSE outcome.kind = "raised" /\ outcome.exc = "thrown"

\* C9: a findpropstrict or getlex that resolves nothing raises ReferenceError,
\* an exception of the program, and no error of the host
C9_StrictNotFoundIsReferenceError ==
    (last.name \in {"FindPropStrict", "GetLex"} /\ last.note = "not found") =>
        /\ outcome.exc # "NotImplementedError"
        /\ outcome.exc = "ReferenceError" \/ Running

\* the step of a findproperty or getproperty that resolved nothing
LenientNotFound(name) ==
    /\ Running
    /\ last'.name = name /\ last'.note = "not found"
    /\ last'.position = Top.position /\ last'.depth = Len(frames)

\* C10: a findproperty that resolves nothing pushes the global object, a
\* getproperty that resolves nothing pops its target and pushes undefined; the
\* step raises nothing, pushes that one value and changes no property map
C10_LenientNotFound ==
    [][/\ LenientNotFound("FindProperty") =>
              /\ outcome' = outcome
              /\ heap' = heap
              /\ Len(frames') = Len(frames)
              /\ frames'[Len(frames)].operand_stack =
                     Append(Top.operand_stack, global_object)
       /\ LenientNotFound("GetProperty") =>
              /\ outcome' = outcome
              /\ heap' = heap
              /\ Len(frames') = Len(frames)
              /\ Top.operand_stack # <<>>
              /\ frames'[Len(frames)].operand_stack =
                     Append(SubSeq(Top.operand_stack, 1, Depth(Top) - 1), undefined)]_vars

\* getproperty has found nothing on an object with properties of its own
C10_GetPropertyFallsBack ==
    /\ last.name = "GetProperty" /\ last.note = "not found" /\ last.completed
    /\ Peek(Top, 0) = undefined
    /\ \E i \in DOMAIN heap : heap[i].properties # EmptyProperties

\* the positions of the scope stack whose object holds the name of multiname index
Holders(env, h, index) ==
    {i \in DOMAIN env.scope_stack :
        \E k \in DOMAIN NameOf(index).v.namespaces :
            HasProperty(h, env.scope_stack[i], NameOf(index).v.namespaces[k],
                        NameOf(index).v.name)}

\* C11: findproperty and findpropstrict consult the scope stack innermost
\* first and before the receiver: when objects of the scope stack hold the
\* name, the owner pushed is the one of them pushed most recently
C11_InnermostFirst ==
    (last.name \in {"FindProperty", "FindPropStrict"} /\ last.completed
        /\ Holders(Top, heap, last.args[1]) # {}) =>
        \E i \in Holders(Top, heap, last.args[1]) :
            /\ \A j \in Holders(Top, heap, last.args[1]) : j <= i
            /\ Peek(Top, 0) = Top.scope_stack[i]

\* the step of a handler of that name that returned
Returned(name) ==
    /\ Running
    /\ last'.name = name /\ last'.completed
    /\ last'.position = Top.position /\ last'.depth = Len(frames)
    /\ Len(frames') = Len(frames)

\* C12: call n on [.., function, receiver, a1, .., an] makes the one call
\* function.call(receiver, [a1, .., an]) and leaves [.., result]; construct n
\* on [.., constructor, a1, .., an] makes the one call
\* constructor.construct([a1, .., an]) and leaves [.., result]
C12_CallPassesArgumentsInOrder ==
    [][/\ Returned("Call") =>
              LET s == Top.operand_stack
                  d == Depth(Top)
                  n == last'.args[1]
              IN /\ Len(last'.invoked) = 1
                 /\ last'.invoked[1].callee = s[d - n - 1]
                 /\ last'.invoked[1].receiver = s[d - n]
                 /\ last'.invoked[1].args = [i \in 1..n |-> s[d - n + i]]
                 /\ frames'[Len(frames)].operand_stack =
                        Append(SubSeq(s, 1, d - n - 2), last'.invoked[1].result)
       /\ Returned("Construct") =>
              LET s == Top.operand_stack
                  d == Depth(Top)
                  n == last'.args[1]
              IN /\ Len(last'.invoked) = 1
                 /\ last'.invoked[1].callee = s[d - n]
                 /\ last'.invoked[1].args = [i \in 1..n |-> s[d - n + i]]
                 /\ frames'[Len(frames)].operand_stack =
                        Append(SubSeq(s, 1, d - n - 1), last'.invoked[1].result)]_vars

\* a call with two arguments that differ has returned
C12_CalledWithTwoArguments ==
    /\ last.name = "Call" /\ last.completed /\ last.args = <<2>>
    /\ last.invoked[1].args = <<IntV(3), IntV(4)>>
    /\ Peek(Top, 0) = last.invoked[1].result

\* the step of a newclass that got as far as its class-object
NewClassStep ==
    /\ Running
    /\ last'.name = "NewClass" /\ last'.note \in {"cached", "allocated"}
    /\ last'.position = Top.position /\ last'.depth = Len(frames)

\* C13: the class-object cached for a class index is never replaced or
\* removed and keeps the base_type of the newclass that made it; a newclass
\* on a cached index allocates nothing and pushes the cached object; a
\* newclass on an index not cached caches one new object whose base_type is
\* the value it popped
C13_OneClassObjectPerIndex ==
    [][/\ \A c \in DOMAIN class_objects :
              /\ c \in DOMAIN class_objects'
              /\ class_objects'[c] = class_objects[c]
              /\ heap'[class_objects[c]].base_type = heap[class_objects[c]].base_type
       /\ (NewClassStep /\ last'.args[1] \in DOMAIN class_objects) =>
              /\ Len(heap') = Len(heap)
              /\ Len(frames') > Len(frames) =>
                     Peek(frames'[Len(frames)], 0) = Ref(class_objects[last'.args[1]])
       /\ (NewClassStep /\ last'.args[1] \notin DOMAIN class_objects) =>
              /\ last'.args[1] \in DOMAIN class_objects'
              /\ class_objects'[last'.args[1]] = Len(heap) + 1
              /\ heap'[Len(heap) + 1].base_type = Peek(Top, 0)
              /\ Len(frames') > Len(frames) =>
                     Peek(frames'[Len(frames)], 0) = Ref(Len(heap) + 1)]_vars

\* a second newclass of the class has pushed the cached class-object, whose
\* base_type is not the value the second newclass popped
C13_SecondNewClassCached ==
    /\ last.name = "NewClass" /\ last.note = "cached" /\ Len(frames) > last.depth
    /\ Peek(frames[last.depth], 0) = Ref(class_objects[0])
    /\ heap[class_objects[0]].base_type = Null

\* C14: the class-object is pushed on the stack of the method that executes
\* newclass only after the class initializer has finished: while an
\* initializer runs, the stack of its caller does not hold its receiver on top
C14_PushedAfterInitializer ==
    \A i \in 1..(Len(frames) - 1) :
        \/ frames[i].operand_stack = <<>>
        \/ Peek(frames[i], 0) # At(frames[i + 1].registers, 0)

\* C15: constructsuper on a null or undefined receiver raises TypeError, an
\* exception of the program, and no error of the host
C15_NullReceiverIsTypeError ==
    (last.name = "ConstructSuper" /\ last.note = "null receiver") =>
        /\ last.invoked = <<>>
        /\ outcome.exc # "NotImplementedError"
        /\ outcome.exc = "TypeError" \/ Running

\* C16: a constructsuper on a receiver that is neither null nor undefined
\* has invoked one initializer, with that receiver and the arguments popped
C16_InvokesBaseInitializer ==
    (last.name = "ConstructSuper" /\ last.completed) =>
        /\ Len(last.invoked) = 1
        /\ Len(last.invoked[1].args) = last.args[1]

\* the host has just called execute_method or execute_entry_point
HostCall == last.note \in {"execute_method", "execute_entry_point"}
\* the method_info and the method body of the method the host called
CalledMethod == At(abc.methods, last.invoked[1].callee)
CalledBody == At(abc.method_bodies, method_to_body(last.invoked[1].callee))

\* every environment has exactly local_count registers
RegistersAreLocalCount ==
    \A i \in DOMAIN frames :
        Len(frames[i].registers) = At(abc.method_bodies, frames[i].body).local_count

\* C17: a call with any number of arguments (fewer than param_count, as
\* many, more, more than local_count - 1) constructs an environment, and
\* every environment has exactly local_count registers at all times
C17_RegistersAreLocalCount ==
    /\ RegistersAreLocalCount
    /\ HostCall => (Running /\ Len(frames) = 1)

\* C18: a call with more arguments than param_count is accepted: registers
\* 1..param_count hold the first param_count arguments in order, and under
\* NEED_REST register param_count + 1 holds the list of the others
C18_SurplusArgumentsAccepted ==
    (HostCall /\ Len(last.invoked[1].args) > CalledMethod.param_count) =>
        /\ Running
        /\ \A i \in 1..CalledMethod.param_count :
               At(Top.registers, i) = last.invoked[1].args[i]
        /\ "NEED_REST" \in CalledMethod.flags =>
               At(Top.registers, CalledMethod.param_count + 1)
                   = ListV(SliceFrom(last.invoked[1].args, CalledMethod.param_count))

\* C19: a call with k <= param_count arguments constructs an environment
\* whose registers after the k-th that have no declared optional value
\* hold undefined; so it does without HAS_OPTIONAL
C19_MissingArgumentsDefaulted ==
    (HostCall /\ Len(last.invoked[1].args) <= CalledMethod.param_count
              /\ BodiesOf(last.invoked[1].callee) # {}
              /\ CalledMethod.param_count < CalledBody.local_count
              /\ CalledMethod.flags \cap {"NEED_REST", "NEED_ARGUMENTS"} = {}) =>
        /\ Running
        /\ \A i \in (Len(last.invoked[1].args) + 1)..(CalledBody.local_count - 1) :
               i > Len(CalledMethod.options.items) => At(Top.registers, i) = undefined

\* C20: execute_entry_point invokes one method, the initializer of the last
\* script, with the global object in register 0
C20_EntryPointRunsLastScript ==
    last.note = "execute_entry_point" =>
        /\ Len(last.invoked) = 1
        /\ last.invoked[1].callee = abc.scripts[Len(abc.scripts)].init
        /\ Running
        /\ Len(frames) = 1
        /\ At(Top.registers, 0) = global_object

\* C21: in a machine that was constructed, method_to_body is defined for
\* every method and names its one body: a call finds a body, and the body
\* it runs is the only one that names the method
C21_MethodToBodyUnique ==
    HostCall =>
        /\ outcome.exc # "KeyError"
        /\ Running => BodiesOf(last.invoked[1].callee) = {Top.body}

\* C24: whenever the loop fetches, the position is within the code, and a
\* taken branch either leaves it there or is reported as a RangeError
C24_FetchWithinCode ==
    /\ Running => Top.position < Len(Code)
    /\ last.note = "taken" => (Running \/ outcome.exc = "RangeError")

\* C25: add_i, subtract_i and convert_i complete on numbers and leave an
\* integer of the 32-bit range on the stack; NaN converts to 0
C25_IntegerResultsAreInt32 ==
    /\ (last.name \in {"AddInteger", "SubtractInteger", "ConvertToInteger"}
           /\ last.completed) => IsInt32(Peek(Top, 0))
    /\ (MainIs(ConvertCode(Ins("PushDouble", <<0>>))) /\ last.name = "ConvertToInteger") =>
           (last.completed /\ Peek(Top, 0) = IntV(0))

\* C26: iffalse completes on every value, and branches exactly when
\* ToBoolean of the popped value is false: for undefined, null, false, 0,
\* NaN and the empty string, and for no other value
C26_IfFalseBranchesOnToBoolean ==
    \A p \in FalsePushers \cup TruePushers :
        (MainIs(IfFalseCode(p)) /\ last.name = "IfFalse") =>
            /\ last.note \in {"taken", "not taken"}
            /\ last.note = "taken" <=> p \in FalsePushers

\* C27: a body whose last instruction has executed completes normally: no
\* invocation ends with the failure of the fetch of an opcode at the end of
\* the code
C27_EndOfCodeCompletes ==
    ~(/\ outcome.kind = "raised"
      /\ outcome.exc = "IndexError"
      /\ last.note = "decode"
      /\ last.name = "")

\* C28: an invocation starts with an empty operand stack, an empty scope
\* stack and registers of its own, and no step changes the environment of
\* an invocation below the one that executes, as long as that one lives
C28_EnvironmentsIsolated ==
    [][/\ Len(frames') > Len(frames) =>
            /\ Len(frames') = Len(frames) + 1
            /\ frames'[Len(frames')].operand_stack = <<>>
            /\ frames'[Len(frames')].scope_stack = <<>>
            /\ frames'[Len(frames')].position = 0
       /\ \A i \in 1..(Len(frames) - 1) : i <= Len(frames') => frames'[i] = frames[i]
       /\ (Len(frames') = Len(frames) /\ frames # <<>>) =>
            frames'[Len(frames)].body = frames[Len(frames)].body]_vars

\* a nested invocation has executed an instruction above its caller
C28_CalleeHasExecuted ==
    /\ Len(frames) = 2
    /\ last.depth = 2
    /\ last.completed
    /\ frames[1].operand_stack # <<>>
    /\ frames[2].operand_stack # <<>>

\* C29: an instruction that the decoder accepted and the loop dispatched
\* does not end in the failure of Instruction.execute, which the classes
\* without a handler inherit
C29_EveryOpcodeHasHandler ==
    (last.name # "" /\ last.note # "decode" /\ last.name \notin Implemented) =>
        outcome.exc # "NotImplementedError"

\* the bytes between the position a call started at and the end of the buffer
Remaining == IF last.before >= Len(abc) THEN <<>> ELSE SubSeq(abc, last.before + 1, Len(abc))
\* the bytes a fixed-width read needs
Width == [read_u8 |-> 1, read_u16 |-> 2, read_s24 |-> 3, read_u32 |-> 4, read_d64 |-> 8]

\* C30: a read that needs more bytes than remain fails: a sub-slice read
\* of size bytes, a fixed-width read, a variable-length integer without a
\* last byte, a read up to a sentinel that is not there; none returns
\* less than was asked for
C30_ShortReadsFail ==
    /\ (last.name = "read" /\ last.args[1] > Len(Remaining)) => outcome.kind = "raised"
    /\ (last.name = "read" /\ outcome.kind = "returned") =>
           Len(outcome.value.v) = last.args[1]
    /\ (last.name \in DOMAIN Width /\ Width[last.name] > Len(Remaining)) =>
           outcome.kind = "raised"
    /\ (last.name = "read_int" /\ Len(Remaining) < 5
           /\ \A i \in DOMAIN Remaining : Remaining[i] >= 128) => outcome.kind = "raised"
    /\ (last.name \in {"read_until", "read_string"}
           /\ \A i \in DOMAIN Remaining : Remaining[i] # 0) => outcome.kind = "raised"

\* the part of C30 that is about the reads other than read(size)
ShortDecodersFail ==
    /\ (last.name \in DOMAIN Width /\ Width[last.name] > Len(Remaining)) =>
           outcome.kind = "raised"
    /\ (last.name = "read_int" /\ Len(Remaining) < 5
           /\ \A i \in DOMAIN Remaining : Remaining[i] >= 128) => outcome.kind = "raised"
    /\ (last.name \in {"read_until", "read_string"}
           /\ \A i \in DOMAIN Remaining : Remaining[i] # 0) => outcome.kind = "raised"

\* the sentinel of each kind of constant
Sentinel == [integers |-> 0, unsigned_integers |-> 0, doubles |-> NaN, strings |-> NoEntry,
             namespaces |-> NoEntry, ns_sets |-> NoEntry, multinames |-> NoEntry]

\* C23: the pools decoded from the encoding of a constant pool hold the
\* sentinel of their kind at index 0 and after it the entries that were
\* encoded, as many and in that order; a pool encoded with the count 0 or
\* the count 1 holds the sentinel alone
C23_PoolsStartWithSentinel ==
    \A d \in PoolDescriptions, zero \in BOOLEAN :
        (abc = encode_pools(PoolNames, d, zero) /\ last.name = "ASConstantPool") =>
            /\ outcome.kind = "returned"
            /\ last.position = Len(abc)
            /\ \A k \in DOMAIN PoolNames :
                   outcome.value.v[k] = <<Sentinel[PoolNames[k]]>> \o d[PoolNames[k]]

\* a constant pool with entries in every pool has been decoded
C23_FullPoolDecoded ==
    /\ last.name = "ASConstantPool"
    /\ outcome.kind = "returned"
    /\ \A k \in DOMAIN PoolNames : Len(outcome.value.v[k]) >= 2
    /\ outcome.value.v[1] = <<0, 5, -1, 200>>

\* C22: a file whose instances are named by Q_NAME multinames is linked,
\* and lookup_class of the qualified name of the multiname that names
\* instance i returns i, also for a package with the empty name
C22_LookupClassFindsInstance ==
    /\ last.name = "VirtualMachine" => outcome.kind = "linked"
    /\ last.name = "lookup_class" => outcome = [kind |-> "returned", exc |-> "",
                                                value |-> IntV(last.args[1])]

\* the call read_int(unsigned=False) or read_int(unsigned=True) has returned
ReadIntReturned(unsigned) ==
    last.name = "read_int" /\ last.args = <<BoolV(unsigned)>> /\ outcome.kind = "returned"

\* C31: read_int at five bytes that all have the continuation bit set
\* raises; it returns no value made of those five bytes
C31_FiveContinuationsFail ==
    (last.name = "read_int" /\ Len(Remaining) >= 5 /\ \A j \in 1..5 : Remaining[j] >= 128)
        => outcome.kind = "raised"

\* C33: the signed result of read_int is within [-2^31, 2^31 - 1] and the
\* unsigned result within [0, 2^32 - 1], for encodings of one to five
\* bytes; FF FF FF FF 0F read signed is -1
C33_ReadIntWithin32Bits ==
    /\ ReadIntReturned(FALSE) => outcome.value.t = "int"
    /\ ReadIntReturned(TRUE) =>
           \/ outcome.value.t = "int" /\ outcome.value.v >= 0
           \/ outcome.value.t = "int above" /\ outcome.value.hi < 16
    /\ (ReadIntReturned(FALSE) /\ Len(Remaining) >= 5
            /\ SubSeq(Remaining, 1, 5) = <<255, 255, 255, 255, 15>>) => outcome.value = IntV(-1)

\* the bytes read_int is to consume: up to and including the first byte
\* whose high bit is clear, at most five
Consumed ==
    IF \E j \in 1..4 : j <= Len(Remaining) /\ Remaining[j] < 128
    THEN CHOOSE j \in 1..4 : /\ j <= Len(Remaining) /\ Remaining[j] < 128
                             /\ \A k \in 1..(j - 1) : Remaining[k] >= 128
    ELSE 5

\* the sum of (byte_j & 0x7F) << (7 * j) over the first n bytes, n <= 4
RECURSIVE GroupSum(_)
GroupSum(n) == IF n = 0 THEN 0 ELSE GroupSum(n - 1) + (Remaining[n] % 128) * Pow2(7 * (n - 1))

U24 == Remaining[1] + 256 * Remaining[2] + 65536 * Remaining[3]

\* C35: read_s24 consumes three bytes b0, b1, b2 and returns
\* u = b0 + 256 * b1 + 65536 * b2 when u < 2^23 and u - 2^24 otherwise, a
\* value within [-2^23, 2^23 - 1]; with fewer than three bytes left it
\* raises
C35_ReadS24SignExtends ==
    last.name = "read_s24" =>
        IF Len(Remaining) >= 3
        THEN /\ outcome.kind = "returned"
             /\ last.position = last.before + 3
             /\ outcome.value = IntV(IF U24 < 8388608 THEN U24 ELSE U24 - 16777216)
             /\ -8388608 <= outcome.value.v /\ outcome.value.v <= 8388607
        ELSE outcome.kind = "raised"

\* read_s24 has returned a negative offset
C35_NegativeOffsetRead ==
    last.name = "read_s24" /\ outcome.kind = "returned" /\ outcome.value.v < 0

\* the index, from 1, of the first zero byte at or after the position the
\* call started at, 0 when there is none
FirstZero ==
    IF \E z \in DOMAIN Remaining : Remaining[z] = 0
    THEN CHOOSE z \in DOMAIN Remaining :
            Remaining[z] = 0 /\ \A k \in 1..(z - 1) : Remaining[k] # 0
    ELSE 0

C37_SkipRectAdvance ==
    /\ (last.name \in {"skip_rect", "parser.skip_rect"} /\ Len(Remaining) >= 1) =>
           /\ outcome.kind = "returned"
           /\ last.position - last.before = ((5 + 4 * (Remaining[1] \div 8)) + 7) \div 8
    /\ Len(Remaining) >= 1 =>
           skip_rect(abc, last.before).pos = parser_skip_rect(abc, last.before).pos

\* skip_rect has skipped a record of the widest fields
C37_WidestRectSkipped ==
    /\ last.name = "skip_rect"
    /\ outcome.kind = "returned"
    /\ Remaining[1] = 255
    /\ last.position - last.before = 17

\* C38: after every reader operation, returned or raised, the position is
\* within 0..len(buffer), and an operation that raises leaves the position
\* where it was before
C38_PositionWithinBuffer ==
    /\ 0 <= last.position /\ last.position <= Len(abc)
    /\ outcome.kind = "raised" => last.position = last.before

\* C39: a step changes the property map of no object other than the one
\* initproperty writes, the object under the value on the stack; the maps
\* of all other objects, other strings among them, stay as they are, and
\* newclass writes only the class object it has just created
C39_PropertyMapsPerObject ==
    [][\A i \in DOMAIN heap :
          /\ i \in DOMAIN heap'
          /\ heap'[i].properties # heap[i].properties =>
                 /\ last'.name = "InitProperty"
                 /\ frames # <<>>
                 /\ Depth(Top) >= 2
                 /\ Peek(Top, 1) = Ref(i)]_vars

\* initproperty has written a property of one string while another string
\* exists, and newclass has allocated a CONST trait
C39_StringWrittenBesideAnother ==
    /\ last.name = "InitProperty"
    /\ last.completed
    /\ \E i, j \in DOMAIN heap :
          /\ i # j
          /\ heap[i].cls = "ASString" /\ heap[j].cls = "ASString"
          /\ heap[i].properties # EmptyProperties
          /\ heap[j].properties = EmptyProperties

\* the object and the name of the get_property call made last
Receiver == heap[last.args[1].v]
AskedName == last.args[2]

\* C32: get_property of an array with an integer name returns the element
\* at that index when 0 <= name < length, and undefined, raising nothing,
\* when the index is out of range or negative; of a string with an
\* integer name in range it returns the string of the one character there
C32_IndexedGetProperty ==
    /\ (last.name = "ASArray.get_property" /\ AskedName.t = "int") =>
           outcome = [kind |-> "returned", exc |-> "",
                      value |-> IF 0 <= AskedName.v /\ AskedName.v < Len(Receiver.value)
                                THEN Receiver.value[AskedName.v + 1] ELSE undefined]
    /\ (last.name = "ASString.get_property" /\ AskedName.t = "int"
            /\ 0 <= AskedName.v /\ AskedName.v < Len(Receiver.value)) =>
           outcome = [kind |-> "returned", exc |-> "",
                      value |-> Str(<<Receiver.value[AskedName.v + 1]>>)]

\* the part of C32 about the indices within range
InRangeIndexReturnsElement ==
    /\ (last.name = "ASArray.get_property" /\ IsIndex(AskedName, Receiver.value)) =>
           outcome = [kind |-> "returned", exc |-> "",
                      value |-> Receiver.value[AskedName.v + 1]]
    /\ (last.name = "ASString.get_property" /\ IsIndex(AskedName, Receiver.value)) =>
           outcome = [kind |-> "returned", exc |-> "",
                      value |-> Str(<<Receiver.value[AskedName.v + 1]>>)]

====
